---- MODULE Spec2Model ----
(***************************************************************************)
(* ReAET: the layer graph of an AET scene (src/src/aet.rs), the per-layer   *)
(* coalescing undoer LayerUndoer and the frame callback App::update         *)
(* (src/src/app.rs).                                                        *)
(*                                                                          *)
(* Layers live behind Rc<Mutex<AetLayerNode>>: the model keeps a heap       *)
(* indexed by allocation number, and a composition is the sequence of the   *)
(* allocation numbers its Vec<Rc<..>> holds.  Cloning an Rc copies the      *)
(* number; cloning an AetLayerNode copies the record, whose composition     *)
(* still holds the same numbers (the derived Clone is shallow).             *)
(*                                                                          *)
(* Paths are the Vec<usize> of the program, with the program's 0-based      *)
(* indices: <<0, scene, top-level layer, child, ...>>.  One scene is        *)
(* modelled, so element 2 of every path is 0.                               *)
(*                                                                          *)
(* One step of the model is one call of App::update (one frame) with one    *)
(* input event.  Time is counted in ticks, TicksPerSecond ticks a second.   *)
(***************************************************************************)
EXTENDS Integers, Sequences, FiniteSets, TLC

\* ---------------------------------------------------------------- bounds
MaxLayers == 4          \* Rc<Mutex<AetLayerNode>> allocations available
MaxTime == 6            \* last tick at which a frame may run
MaxBurstTime == 11      \* the same, for the frames of BurstSpec
MaxCapTime == 5         \* the same, for the frames of CapSpec
CapSlack == 2           \* CapSpec starts at most this far below the capacity
MaxEditTime == 4        \* the same, for the frames of EditSpec
MaxMarkers == 1         \* markers a layer may be given
MaxFrame == 3           \* last frame the timeline of DisplaySpec shows
TicksPerSecond == 2     \* resolution of input.time

\* ------------------------------------------------------ program constants
UndoCapacity == 100     \* add_undo keeps at most this many entries
QuietSeconds == 1       \* feed_state commits after this many quiet seconds

QuietTicks == QuietSeconds * TicksPerSecond

NoLayer == 0            \* Option<Rc<..>>::None, and "the fold panicked"
EditNames == {"x"}      \* what the name field is typed over with
BurstNames == {"x", "y"} \* the same, for the frames of BurstSpec
ItemKinds == {"None", "Video", "Audio", "Comp"}
EditTimes == {1, 2}     \* what the time fields are typed over with
SelectableKeys == {0, 1} \* the keys of the curve shown
ScenePath == <<0, 0>>   \* the path of the one scene

LayerIds == 1..MaxLayers

\* ------------------------------------------------------------ AetLayerNode
\* The fields of the struct, but sprites.  item is held as its variant and
\* the layers of AetItemNode::Comp; video and audio are Options, held as
\* sequences of zero or one value; flags is held as its video_active bit.
\* A layer made by Layer has the timing, flags and quality of a layer of the
\* file, and is visible as AetCompNode::create makes it (visible =
\* flags.video_active()).  rc is not a field of the program: it records
\* which allocation a value was cloned from, so that a property can say so.
\* AetVideoSourceNode, by whether its sprite is bound.
Source(bound) == [sprite |-> IF bound THEN <<"sprite">> ELSE <<>>]

FileEndTime == MaxFrame \* end_time of the layers of the file, in frames

Layer(name, item, layers, video, parent, rc) ==
    [name |-> name, start_time |-> 0, end_time |-> FileEndTime,
     offset_time |-> 0, time_scale |-> 1,
     flags |-> [video_active |-> TRUE], quality |-> "Best",
     item |-> item, layers |-> layers,
     sources |-> IF item = "Video" THEN <<Source(TRUE)>> ELSE <<>>,
     markers |-> <<>>, video |-> video,
     parent |-> parent, audio |-> <<>>,
     visible |-> TRUE, selected_key |-> 0,
     want_deletion |-> FALSE, want_duplicate |-> FALSE,
     rc |-> rc]

\* The values the two DUMMY layers of LayerUndoer::new and of
\* AetSceneNode::display_tree are written with.
Dummy(item, layers) ==
    [Layer("DUMMY", item, layers, <<>>, NoLayer, NoLayer)
        EXCEPT !.end_time = 0, !.flags = [video_active |-> FALSE],
               !.quality = "None", !.visible = FALSE]

\* FCurve: the curve is held by its samples, one key a frame from frame 0
\* on; Constant(v) is the curve with the one key v.
Constant(v) == <<v>>

\* LayerVideo with the constant curves pos_x, scale_x and anchor_x, every
\* other curve at the value that changes nothing, and no Video3D block.
Video(pos_x, scale_x, anchor_x) ==
    [pos_x |-> Constant(pos_x), pos_y |-> Constant(0),
     rot_z |-> Constant(0),
     scale_x |-> Constant(scale_x), scale_y |-> Constant(1),
     anchor_x |-> Constant(anchor_x), anchor_y |-> Constant(0),
     opacity |-> Constant(1),
     _3d |-> <<>>]

\* LayerVideo3D with every curve at the value that changes nothing.
Video3D ==
    [pos_z |-> Constant(0),
     dir_x |-> Constant(0), dir_y |-> Constant(0), dir_z |-> Constant(0),
     rot_x |-> Constant(0), rot_y |-> Constant(0),
     scale_z |-> Constant(1), anchor_z |-> Constant(0)]

\* The DUMMY layer LayerUndoer::new starts from.
DummyLayer == Dummy("None", <<>>)

\* The DUMMY layer AetSceneNode::display_tree wraps the root composition in.
SceneDummy(root_layers) == Dummy("Comp", root_layers)

\* The layer the context menu's Add of the layer owner pushes.
AddedLayer(id, owner) ==
    [Layer("DUMMY", "None", <<>>, <<>>, NoLayer, id)
        EXCEPT !.end_time = owner.end_time - owner.start_time,
               !.flags = owner.flags, !.visible = owner.visible]

\* ------------------------------------------------------------- PartialEq
RECURSIVE LayerEq(_, _, _)

\* PartialEq for AetCompNode: same length, and position by position the same
\* Rc or equal layers.
CompEq(h, a, b) ==
    /\ Len(a) = Len(b)
    /\ \A i \in 1..Len(a) : a[i] = b[i] \/ LayerEq(h, h[a[i]], h[b[i]])

\* PartialEq for AetItemNode (derived): the same variant with equal payload.
ItemEq(h, x, y) ==
    /\ x.item = y.item
    /\ x.item = "Comp" => CompEq(h, x.layers, y.layers)
    /\ x.item = "Video" => x.sources = y.sources

\* PartialEq for AetLayerNode, had it compared visible as well.
LayerEq_with_visible(h, x, y) ==
    /\ x.name = y.name
    /\ x.start_time = y.start_time
    /\ x.end_time = y.end_time
    /\ x.offset_time = y.offset_time
    /\ x.time_scale = y.time_scale
    /\ x.flags = y.flags
    /\ x.quality = y.quality
    /\ ItemEq(h, x, y)
    /\ x.markers = y.markers
    /\ x.video = y.video
    /\ x.audio = y.audio
    /\ x.visible = y.visible

\* PartialEq for AetLayerNode: parent, sprites, visible, selected_key and
\* the want flags are not compared.
LayerEq(h, x, y) ==
    /\ x.name = y.name
    /\ x.start_time = y.start_time
    /\ x.end_time = y.end_time
    /\ x.offset_time = y.offset_time
    /\ x.time_scale = y.time_scale
    /\ x.flags = y.flags
    /\ x.quality = y.quality
    /\ ItemEq(h, x, y)
    /\ x.markers = y.markers
    /\ x.video = y.video
    /\ x.audio = y.audio

\* ------------------------------------------------------------ path fold
\* The fold of feed_state and of the undo install: start at
\* root.layers[path[2]] and descend through comp.layers[i] for the rest of
\* the path.  An index out of range or a layer that is no composition
\* panics; the result is then NoLayer.
RECURSIVE FoldFrom(_, _, _, _)
FoldFrom(h, id, path, k) ==
    IF k > Len(path) THEN id
    ELSE IF h[id].item # "Comp" THEN NoLayer
    ELSE IF path[k] + 1 > Len(h[id].layers) THEN NoLayer
    ELSE FoldFrom(h, h[id].layers[path[k] + 1], path, k + 1)

PathFold(h, root_layers, path) ==
    IF path[2] # 0 THEN NoLayer
    ELSE IF path[3] + 1 > Len(root_layers) THEN NoLayer
    ELSE FoldFrom(h, root_layers[path[3] + 1], path, 4)

\* ---------------------------------------------------------------- display
\* FCurve::interpolate is not part of this source tree; a curve is read at
\* its key for the frame, the first and the last key holding outside, and an
\* empty curve reads 0.
interpolate(curve, frame) ==
    IF curve = <<>> THEN 0
    ELSE IF frame < 0 THEN curve[1]
    ELSE IF frame + 1 > Len(curve) THEN curve[Len(curve)]
    ELSE curve[frame + 1]

\* f32::clamp
clamp(v, lo, hi) == IF v < lo THEN lo ELSE IF v > hi THEN hi ELSE v

\* Vec4 without its last component, and the two operations calc_mat uses.
VAdd(a, b) == <<a[1] + b[1], a[2] + b[2], a[3] + b[3]>>
VMul(a, k) == <<a[1] * k, a[2] * k, a[3] * k>>

\* Mat4 by its columns x, y, z (the basis) and w (the translation).
Mat(x, y, z, w) == [x |-> x, y |-> y, z |-> z, w |-> w]

\* Mat4::default()
IdentityMat == Mat(<<1, 0, 0>>, <<0, 1, 0>>, <<0, 0, 1>>, <<0, 0, 0>>)

\* cos and sin of an angle in degrees; the model's angles are multiples of
\* a right angle.
CosDeg(a) == CASE a % 360 = 0 -> 1
               [] a % 360 = 180 -> 0 - 1
               [] OTHER -> 0

SinDeg(a) == CASE a % 360 = 90 -> 1
               [] a % 360 = 270 -> 0 - 1
               [] OTHER -> 0

\* The five arrays calc_mat reads from the curves at the frame.
sample_pos(video, frame) ==
    <<interpolate(video.pos_x, frame), interpolate(video.pos_y, frame),
      IF video._3d = <<>> THEN 0
      ELSE 0 - interpolate(video._3d[1].pos_z, frame)>>

sample_scale(video, frame) ==
    <<interpolate(video.scale_x, frame), interpolate(video.scale_y, frame),
      IF video._3d = <<>> THEN 1
      ELSE interpolate(video._3d[1].scale_z, frame)>>

sample_dir(video, frame) ==
    IF video._3d = <<>> THEN <<0, 0, 0>>
    ELSE <<interpolate(video._3d[1].dir_x, frame),
           interpolate(video._3d[1].dir_y, frame),
           interpolate(video._3d[1].dir_z, frame)>>

sample_rot(video, frame) ==
    <<IF video._3d = <<>> THEN 0 ELSE interpolate(video._3d[1].rot_x, frame),
      IF video._3d = <<>> THEN 0 ELSE interpolate(video._3d[1].rot_y, frame),
      interpolate(video.rot_z, frame)>>

sample_anchor(video, frame) ==
    <<interpolate(video.anchor_x, frame), interpolate(video.anchor_y, frame),
      IF video._3d = <<>> THEN 0
      ELSE interpolate(video._3d[1].anchor_z, frame)>>

\* m.w = m.x * pos[0] + m.y * pos[1] + m.z * -pos[2] + m.w
translate(m, pos) ==
    [m EXCEPT !.w = VAdd(VAdd(VAdd(VMul(m.x, pos[1]), VMul(m.y, pos[2])),
                              VMul(m.z, 0 - pos[3])),
                         m.w)]

\* The three bodies of the rotation blocks, for the angle rad in degrees.
turn_x(m, rad) ==
    [m EXCEPT !.y = VAdd(VMul(m.y, CosDeg(rad)), VMul(m.z, SinDeg(rad))),
              !.z = VAdd(VMul(m.y, 0 - SinDeg(rad)), VMul(m.z, CosDeg(rad)))]

turn_y(m, rad) ==
    [m EXCEPT !.x = VAdd(VMul(m.x, CosDeg(rad)), VMul(m.z, 0 - SinDeg(rad))),
              !.z = VAdd(VMul(m.x, SinDeg(rad)), VMul(m.z, CosDeg(rad)))]

turn_z(m, rad) ==
    [m EXCEPT !.x = VAdd(VMul(m.x, CosDeg(rad)), VMul(m.y, SinDeg(rad))),
              !.y = VAdd(VMul(m.x, 0 - SinDeg(rad)), VMul(m.y, CosDeg(rad)))]

\* The condition of the six rotation blocks, had it been "not zero".
applied_nonzero(angle) == angle # 0

\* The condition of the six rotation blocks: if dir[0] > 0.0 { ... }
applied(angle) == angle > 0

\* The three blocks for dir, or for rot: x and y turn by the negated angle.
rotate(m, angles) ==
    LET mx == IF applied(angles[1]) THEN turn_x(m, 0 - angles[1]) ELSE m
        my == IF applied(angles[2]) THEN turn_y(mx, 0 - angles[2]) ELSE mx
    IN IF applied(angles[3]) THEN turn_z(my, angles[3]) ELSE my

\* m.x = m.x * scale[0]; m.y = m.y * scale[1]; m.z = m.z * scale[2]
scale(m, s) ==
    [m EXCEPT !.x = VMul(m.x, s[1]), !.y = VMul(m.y, s[2]),
              !.z = VMul(m.z, s[3])]

\* The last line of calc_mat, had it left m.w out of the sum.
unanchor_from_origin(m, anchor) ==
    [m EXCEPT !.w = VAdd(VAdd(VMul(m.x, 0 - anchor[1]),
                              VMul(m.y, 0 - anchor[2])),
                         VMul(m.z, 0 - anchor[3]))]

\* m.w = m.x * -anchor[0] + m.y * -anchor[1] + m.z * -anchor[2] + m.w
unanchor(m, anchor) ==
    [m EXCEPT !.w = VAdd(VAdd(VAdd(VMul(m.x, 0 - anchor[1]),
                                   VMul(m.y, 0 - anchor[2])),
                              VMul(m.z, 0 - anchor[3])),
                         m.w)]

\* calc_mat, had it taken the anchor off before scaling.
calc_mat_anchor_first(m, opacity, video, frame) ==
    [m |-> scale(unanchor(rotate(rotate(translate(m, sample_pos(video, frame)),
                                        sample_dir(video, frame)),
                                 sample_rot(video, frame)),
                          sample_anchor(video, frame)),
                 sample_scale(video, frame)),
     opacity |-> opacity * clamp(interpolate(video.opacity, frame), 0, 1)]

\* calc_mat: the translation, the rotations of dir and of rot, the scale,
\* the anchor; the opacity is multiplied by the clamped curve.  The result
\* is the pair the two &mut arguments are left with.
calc_mat(m, opacity, video, frame) ==
    [m |-> unanchor(scale(rotate(rotate(translate(m, sample_pos(video, frame)),
                                        sample_dir(video, frame)),
                                 sample_rot(video, frame)),
                          sample_scale(video, frame)),
                    sample_anchor(video, frame)),
     opacity |-> opacity * clamp(interpolate(video.opacity, frame), 0, 1)]

\* The video of the layer the parent field of a layer holds.
parent_video(h, layer) ==
    IF layer.parent = NoLayer THEN <<>> ELSE h[layer.parent].video

\* What calc_mat makes of an Option<LayerVideo>.
with_video(r, video, frame) ==
    IF video = <<>> THEN r ELSE calc_mat(r.m, r.opacity, video[1], frame)

\* layer_mat, had it applied the layer's own video before its parent's.
layer_mat_own_first(h, id, mat, opacity, frame) ==
    with_video(with_video([m |-> mat, opacity |-> opacity],
                          h[id].video, frame),
               parent_video(h, h[id]), frame)

\* The matrix and opacity AetCompNode::display gives a layer: the video of
\* the layer its parent field holds, when there is one, then its own video.
layer_mat(h, id, mat, opacity, frame) ==
    with_video(with_video([m |-> mat, opacity |-> opacity],
                          parent_video(h, h[id]), frame),
               h[id].video, frame)

\* The skip of AetCompNode::display, had it kept a layer up to and including
\* its end_time.
skipped_after_end(layer, frame) ==
    \/ frame < layer.start_time
    \/ frame > layer.end_time
    \/ ~layer.flags.video_active
    \/ ~layer.visible

\* The skip of AetCompNode::display.
skipped(layer, frame) ==
    \/ frame < layer.start_time
    \/ frame >= layer.end_time
    \/ ~layer.flags.video_active
    \/ ~layer.visible

\* The frame a composition layer gives its composition.
child_frame_unscaled(layer, frame) ==
    frame - layer.start_time + layer.offset_time

\* (frame - layer.start_time) * layer.time_scale + layer.offset_time
child_frame(layer, frame) ==
    (frame - layer.start_time) * layer.time_scale + layer.offset_time

\* What display leaves: the WgpuAetVideo values pushed, and whether an
\* unwrap of a try_lock panicked on the way.
Pushed_(vs, panic) == [videos |-> vs, panic |-> panic]

\* The rest of a loop after what one round of it left.
and_then(first, rest) ==
    IF first.panic THEN first
    ELSE Pushed_(first.videos \o rest.videos, rest.panic)

\* The arm AetItemNode::Video of display: no first source pushes the
\* placeholder when placeholders are displayed; a first source without a
\* sprite pushes nothing; a first source with a sprite pushes the video.
\* layer is not a field of WgpuAetVideo: it records which layer pushed it.
video_item(layer, id, r, placeholders) ==
    IF layer.sources = <<>>
    THEN IF placeholders
         THEN Pushed_(<<[layer |-> id, is_empty |-> TRUE, mat |-> r.m,
                         opacity |-> r.opacity]>>, FALSE)
         ELSE Pushed_(<<>>, FALSE)
    ELSE IF layer.sources[1].sprite = <<>> THEN Pushed_(<<>>, FALSE)
    ELSE Pushed_(<<[layer |-> id, is_empty |-> FALSE, mat |-> r.m,
                    opacity |-> r.opacity]>>, FALSE)

RECURSIVE display(_, _, _, _, _, _, _, _, _)

\* What AetCompNode::display does with one layer that it does not skip,
\* once r is what layer_mat made of the matrix and the opacity: the match on
\* the item.  held are the layers whose lock the callers hold.
display_item(h, id, r, frame, placeholders, held, depth) ==
    CASE h[id].item = "Video" -> video_item(h[id], id, r, placeholders)
      [] h[id].item = "Comp" /\ depth > 0 ->
            display(h, h[id].layers, Len(h[id].layers), r.m,
                    child_frame(h[id], frame), r.opacity, placeholders,
                    held \cup {id}, depth - 1)
      [] OTHER -> Pushed_(<<>>, FALSE)

\* parent.try_lock().unwrap() panics: the parent field holds the layer
\* itself, whose lock this round holds, or a layer whose lock a caller
\* holds.
parent_locked(h, id, held) ==
    h[id].parent # NoLayer /\ h[id].parent \in held \cup {id}

\* One round of the loop of AetCompNode::display: the lock of the layer, the
\* skip, the lock of its parent, the two calc_mat, the item.
display_layer(h, id, mat, frame, opacity, placeholders, held, depth) ==
    IF id \in held THEN Pushed_(<<>>, TRUE)
    ELSE IF skipped(h[id], frame) THEN Pushed_(<<>>, FALSE)
    ELSE IF parent_locked(h, id, held) THEN Pushed_(<<>>, TRUE)
    ELSE display_item(h, id, layer_mat(h, id, mat, opacity, frame), frame,
                      placeholders, held, depth)

\* AetCompNode::display: for layer in self.layers.iter().rev(), from the
\* layer at position k down.
display(h, ids, k, mat, frame, opacity, placeholders, held, depth) ==
    IF k = 0 THEN Pushed_(<<>>, FALSE)
    ELSE and_then(display_layer(h, ids[k], mat, frame, opacity, placeholders,
                                held, depth),
                  display(h, ids, k - 1, mat, frame, opacity, placeholders,
                          held, depth))

\* AetSceneNode::display_visual of a scene that is not centered.
display_visual(h, root_layers, time, placeholders) ==
    display(h, root_layers, Len(root_layers), IdentityMat, time, 1,
            placeholders, {}, MaxLayers)

\* ---------------------------------------------------------------- state
VARIABLES
    heap,            \* allocation number -> the AetLayerNode behind the Rc
    next_id,         \* the next allocation number Rc::new hands out
    root,            \* scenes[0].root.layers
    selected,        \* App::selected
    gesture,         \* egui's pointer state: <<>>, or <<[kind, path]>> for an
                     \* open context menu ("menu") or a drag in progress ("drag")
    undos,           \* LayerUndoer::undos, oldest first: [layer, path]
    original_layer,  \* LayerUndoer::original_layer (the baseline)
    current_path,    \* LayerUndoer::current_path
    flux,            \* LayerUndoer::flux: <<>> or <<[time, layer]>>
    now,             \* input.time of the last frame, in ticks
    panic_at,        \* "none", or the place whose panic ended the process
    input,           \* the event of the last frame (observation only)
    pre_burst,       \* the value feed_state last saw at rest (observation only)
    scene_current_time, \* scenes[0].current_time, in frames
    display_placeholders, \* scenes[0].display_placeholders
    file_picker_result, \* App::file_picker_result: <<>>, or <<c>> for the
                     \* Receiver of channel c
    channels,        \* channel -> its picker thread, the message in flight
                     \* and its Receiver
    aet_set,         \* the file App::aet_set was read from
    loaded,         \* the results set_file was called with: [chan, file]
    videos           \* WgpuAetVideos::videos as display_visual last left it

vars == <<heap, next_id, root, selected, gesture, undos, original_layer,
          current_path, flux, now, panic_at, input, pre_burst,
          scene_current_time, display_placeholders, videos,
          file_picker_result, channels, aet_set, loaded>>

\* ------------------------------------------------------- the file picker
\* The channels the open shortcut can create, and the files a dialog can
\* return.
MaxPicks == 3
Channels == 1..MaxPicks
Files == {"aet_a.bin", "aet_b.bin"}
LoadedFile == "aet.bin"

\* A channel: the picker thread that holds its Sender ("none" before it is
\* spawned, "picking" while the dialog is open, "sent" after tx.send
\* returned Ok, "panicked" after an unwrap failed), the message in flight
\* (<<>>, or <<pick>> with pick = <<>> for None and <<file>> for Some), and
\* its Receiver ("held" by file_picker_result, "replaced" when a later pick
\* overwrote it, "consumed" when the poll set file_picker_result to None).
Channel(thread, message, rx) == [thread |-> thread, message |-> message, rx |-> rx]

\* App::new: no picker, and the file the scene was read from.
NoPick ==
    /\ file_picker_result = <<>>
    /\ channels = [c \in Channels |-> Channel("none", <<>>, "none")]
    /\ aet_set = LoadedFile
    /\ loaded = <<>>

\* The picker state a frame threads through its steps.
Pk == [file_picker_result |-> file_picker_result, channels |-> channels,
       aet_set |-> aet_set, loaded |-> loaded]

\* The channels created so far.
Spawned(p) == {c \in Channels : p.channels[c].thread # "none"}

\* The open shortcut: a channel, a thread with its Sender, and
\* file_picker_result = Some(rx), which drops the Receiver held before.
open_file(p) ==
    LET c == Cardinality(Spawned(p)) + 1 IN
    [p EXCEPT !.channels =
                [k \in Channels |->
                    IF k = c THEN Channel("picking", <<>>, "held")
                    ELSE IF p.file_picker_result = <<k>>
                    THEN [p.channels[k] EXCEPT !.rx = "replaced", !.message = <<>>]
                    ELSE p.channels[k]],
              !.file_picker_result = <<c>>]

\* rx.try_recv(): <<res>> for Ok(res), <<>> for Err (empty or disconnected).
try_recv(ch) == ch.message

\* if let Some(rx) = &mut self.file_picker_result && let Ok(res) = rx.try_recv()
polled(p) ==
    IF p.file_picker_result # <<>>
       /\ try_recv(p.channels[p.file_picker_result[1]]) # <<>>
    THEN p.file_picker_result
    ELSE <<>>

\* The body of the poll, had it left the message in the channel and the
\* Receiver in file_picker_result.
received_and_kept(p, c) ==
    LET res == try_recv(p.channels[c])[1] IN
    [p EXCEPT !.aet_set = IF res # <<>> THEN res[1] ELSE @,
              !.loaded = IF res # <<>> THEN Append(@, [chan |-> c, file |-> res[1]])
                         ELSE @]

\* The body of the poll for channel c: set_file for Some((path, data)), and
\* file_picker_result = None.
received(p, c) ==
    LET res == try_recv(p.channels[c])[1] IN
    [p EXCEPT !.channels[c] = Channel(@.thread, <<>>, "consumed"),
              !.file_picker_result = <<>>,
              !.aet_set = IF res # <<>> THEN res[1] ELSE @,
              !.loaded = IF res # <<>> THEN Append(@, [chan |-> c, file |-> res[1]])
                          ELSE @]

poll(p) == IF polled(p) # <<>> THEN received(p, polled(p)[1]) ELSE p

\* The program state a frame threads through its steps.
St == [heap |-> heap, next_id |-> next_id, root |-> root,
       selected |-> selected, gesture |-> gesture, undos |-> undos,
       original_layer |-> original_layer, current_path |-> current_path,
       flux |-> flux, panic_at |-> panic_at]

Panic(s, where) == [s EXCEPT !.panic_at = where]

\* ----------------------------------------------------------- LayerUndoer
\* has_undo
has_undo(s) == IF Len(s.undos) = 0 THEN s.flux # <<>> ELSE TRUE

\* add_undo, had it never dropped the oldest entry.
add_undo_unbounded(s, layer, path) ==
    [s EXCEPT !.undos = Append(s.undos, [layer |-> layer, path |-> path]),
              !.flux = <<>>]

\* add_undo, had it left flux as it was.
add_undo_keeps_flux(s, layer, path) ==
    LET pushed == Append(s.undos, [layer |-> layer, path |-> path])
    IN [s EXCEPT !.undos = IF Len(pushed) > UndoCapacity THEN Tail(pushed)
                           ELSE pushed]

\* add_undo: push_back, drop the front when over capacity, clear flux.
add_undo(s, layer, path) ==
    LET pushed == Append(s.undos, [layer |-> layer, path |-> path])
    IN [s EXCEPT !.undos = IF Len(pushed) > UndoCapacity THEN Tail(pushed)
                           ELSE pushed,
                 !.flux = <<>>]

\* undo: what it returns, as a sequence of zero or one [layer, path].
undo_result(s) ==
    IF s.flux # <<>>
    THEN <<[layer |-> s.original_layer, path |-> s.current_path]>>
    ELSE IF Len(s.undos) = 0 THEN <<>>
    ELSE <<s.undos[Len(s.undos)]>>

\* undo: the undoer it leaves.
undo_state(s) ==
    IF s.flux # <<>> THEN [s EXCEPT !.flux = <<>>]
    ELSE IF Len(s.undos) = 0 THEN s
    ELSE [s EXCEPT !.undos = SubSeq(s.undos, 1, Len(s.undos) - 1)]

\* feed_state, had it dropped the pending edit on a change of selection
\* instead of pushing it.
feed_state_drops_pending(s, current_time) ==
    IF Len(s.selected) < 3 \/ s.selected[1] # 0 THEN s
    ELSE
      LET id == PathFold(s.heap, s.root, s.selected) IN
      IF id = NoLayer THEN Panic(s, "feed_state")
      ELSE
        LET layer == s.heap[id] IN
        IF s.selected = s.current_path
        THEN IF s.flux # <<>>
             THEN IF ~LayerEq(s.heap, s.flux[1].layer, layer)
                  THEN [s EXCEPT !.flux = <<[time |-> current_time, layer |-> layer]>>]
                  ELSE IF current_time >= s.flux[1].time + QuietTicks
                  THEN [add_undo(s, s.original_layer, s.current_path)
                          EXCEPT !.original_layer = layer]
                  ELSE s
             ELSE IF ~LayerEq(s.heap, s.original_layer, layer)
                  THEN [s EXCEPT !.flux = <<[time |-> current_time, layer |-> layer]>>]
                  ELSE s
        ELSE [s EXCEPT !.flux = <<>>,
                       !.current_path = s.selected,
                       !.original_layer = layer]

\* feed_state(current_time, selected, set)
feed_state(s, current_time) ==
    IF Len(s.selected) < 3 \/ s.selected[1] # 0 THEN s
    ELSE
      LET id == PathFold(s.heap, s.root, s.selected) IN
      IF id = NoLayer THEN Panic(s, "feed_state")
      ELSE
        LET layer == s.heap[id] IN
        IF s.selected = s.current_path
        THEN IF s.flux # <<>>
             THEN IF ~LayerEq(s.heap, s.flux[1].layer, layer)
                  THEN [s EXCEPT !.flux = <<[time |-> current_time, layer |-> layer]>>]
                  ELSE IF current_time >= s.flux[1].time + QuietTicks
                  THEN [add_undo(s, s.original_layer, s.current_path)
                          EXCEPT !.original_layer = layer]
                  ELSE s
             ELSE IF ~LayerEq(s.heap, s.original_layer, layer)
                  THEN [s EXCEPT !.flux = <<[time |-> current_time, layer |-> layer]>>]
                  ELSE s
        ELSE
          LET flushed == IF s.flux # <<>>
                         THEN add_undo(s, s.original_layer, s.current_path)
                         ELSE s
          IN [flushed EXCEPT !.current_path = s.selected,
                             !.original_layer = layer]

\* ------------------------------------------------- App::update: the undo
ClearWant(h, ids) ==
    [i \in LayerIds |->
        IF \E k \in 1..Len(ids) : ids[k] = i
        THEN [h[i] EXCEPT !.want_deletion = FALSE, !.want_duplicate = FALSE]
        ELSE h[i]]

\* What App::update does with Some((undone, path)): a path of length 2
\* replaces the root composition, a longer one overwrites the layer the path
\* folds to.  The want flags of the children of undone are cleared first.
undo_install(s, undone, path) ==
    IF Len(path) < 2 THEN Panic(s, "undo")
    ELSE IF Len(path) = 2
    THEN IF undone.item # "Comp" \/ path[2] # 0 THEN Panic(s, "undo")
         ELSE [s EXCEPT !.heap = ClearWant(s.heap, undone.layers),
                        !.root = undone.layers]
    ELSE LET id == PathFold(s.heap, s.root, path) IN
         IF id = NoLayer THEN Panic(s, "undo")
         ELSE LET h1 == IF undone.item = "Comp"
                        THEN ClearWant(s.heap, undone.layers) ELSE s.heap
              IN [s EXCEPT !.heap = [h1 EXCEPT ![id] = undone]]

\* The UNDO_SHORTCUT branch of App::update.
shortcut_undo(s) ==
    LET res == undo_result(s) IN
    IF has_undo(s) /\ res # <<>>
    THEN undo_install(undo_state(s), res[1].layer, res[1].path)
    ELSE s

\* The Undo button of the Edit menu, which App::update shows after
\* feed_state: enabled by has_undo, it installs what undo() returns the same
\* way.
menu_undo(s) ==
    LET res == undo_result(s) IN
    IF has_undo(s) /\ res # <<>>
    THEN undo_install(undo_state(s), res[1].layer, res[1].path)
    ELSE s

\* ------------------------------------------- display_opts of the selection
\* show_node_opts reaches the selected layer through display_children; a
\* path that leads nowhere shows no options.
SelectedLayer(s) ==
    IF Len(s.selected) < 3 THEN NoLayer ELSE PathFold(s.heap, s.root, s.selected)

\* text_edit_singleline(&mut self.name)
edit_name(s, name) ==
    [s EXCEPT !.heap[SelectedLayer(s)].name = name]

\* The "Child" combo box: self.item = a fresh item of the chosen variant.
set_item(s, kind) ==
    [s EXCEPT !.heap[SelectedLayer(s)].item = kind,
              !.heap[SelectedLayer(s)].layers = <<>>,
              !.heap[SelectedLayer(s)].sources = <<>>]

\* num_edit(ui, &mut self.start_time, 2) and the same for end_time
set_time(s, field, value) ==
    IF field = "start_time"
    THEN [s EXCEPT !.heap[SelectedLayer(s)].start_time = value]
    ELSE [s EXCEPT !.heap[SelectedLayer(s)].end_time = value]

\* The "Audio" checkbox: Some(LayerAudio) with its default curves, or None.
toggle_audio(s) ==
    [s EXCEPT !.heap[SelectedLayer(s)].audio =
                    IF @ = <<>> THEN <<"LayerAudio">> ELSE <<>>]

\* The LayerVideo the "Video" checkbox creates: the scales and the opacity
\* hold one key of value 1, the other curves hold no key.
EnabledVideo ==
    [pos_x |-> <<>>, pos_y |-> <<>>,
     rot_z |-> <<>>,
     scale_x |-> Constant(1), scale_y |-> Constant(1),
     anchor_x |-> <<>>, anchor_y |-> <<>>,
     opacity |-> Constant(1),
     _3d |-> <<>>]

\* The LayerVideo3D the "3D" checkbox creates: scale_z holds one key of
\* value 1, the other curves hold no key.
Enabled3D ==
    [pos_z |-> <<>>,
     dir_x |-> <<>>, dir_y |-> <<>>, dir_z |-> <<>>,
     rot_x |-> <<>>, rot_y |-> <<>>,
     scale_z |-> Constant(1), anchor_z |-> <<>>]

\* The "Video" checkbox: Some(LayerVideo) as above, or None.
toggle_video(s) ==
    [s EXCEPT !.heap[SelectedLayer(s)].video =
                    IF @ = <<>> THEN <<EnabledVideo>> ELSE <<>>]

\* The "3D" checkbox, shown when the layer has a video.
toggle_3d(s) ==
    [s EXCEPT !.heap[SelectedLayer(s)].video[1]._3d =
                    IF @ = <<>> THEN <<Enabled3D>> ELSE <<>>]

\* The "+" button of the markers: self.markers.push(("DUMMY", 0.0))
add_marker(s) ==
    [s EXCEPT !.heap[SelectedLayer(s)].markers = Append(@, <<"DUMMY", 0>>)]

\* The arrows of the curve editor: self.selected_key -= 1 or += 1
select_key(s, key) ==
    [s EXCEPT !.heap[SelectedLayer(s)].selected_key = key]

\* ------------------------------------------------------------ the passes
AnyWanted(h, ids) ==
    \E k \in 1..Len(ids) : h[ids[k]].want_deletion \/ h[ids[k]].want_duplicate

\* layers.retain(|layer| !layer.want_deletion)
Retain(h, ids) == SelectSeq(ids, LAMBDA i : ~h[i].want_deletion)

\* The 0-based indices of the layers that want a duplicate, ascending,
\* collected before any insertion.
RECURSIVE WantedIndices(_, _, _)
WantedIndices(h, ids, k) ==
    IF k > Len(ids) THEN <<>>
    ELSE (IF h[ids[k]].want_duplicate THEN <<k - 1>> ELSE <<>>)
         \o WantedIndices(h, ids, k + 1)

\* Vec::insert(i, x), i 0-based
VecInsert(ids, i, x) ==
    SubSeq(ids, 1, i) \o <<x>> \o SubSeq(ids, i + 1, Len(ids))

\* for i in indices { layers.insert(i, layers[i].clone()) }
RECURSIVE InsertDuplicates(_, _, _)
InsertDuplicates(ids, idxs, k) ==
    IF k > Len(idxs) THEN ids
    ELSE InsertDuplicates(VecInsert(ids, idxs[k], ids[idxs[k] + 1]), idxs, k + 1)

\* The pass, had it inserted the duplicates before it removed.
PassLayers_insert_first(h, ids) ==
    Retain(h, InsertDuplicates(ids, WantedIndices(h, ids, 1), 1))

\* retain, then the insertions.
PassLayers(h, ids) ==
    InsertDuplicates(Retain(h, ids), WantedIndices(h, Retain(h, ids), 1), 1)

ClearDuplicate(h, ids) ==
    [i \in LayerIds |->
        IF \E k \in 1..Len(ids) : ids[k] = i
        THEN [h[i] EXCEPT !.want_duplicate = FALSE]
        ELSE h[i]]

\* The pass of AetLayerNode::display_tree over its own composition.
layer_pass(s, id, path) ==
    LET ids == s.heap[id].layers
        s1  == IF AnyWanted(s.heap, ids)
               THEN add_undo([s EXCEPT !.selected = path], s.heap[id], path)
               ELSE s
        out == PassLayers(s.heap, ids)
    IN [s1 EXCEPT !.heap = ClearDuplicate([s.heap EXCEPT ![id].layers = out], out)]

\* The pass of AetSceneNode::display_tree over the root composition.
scene_pass(s) ==
    LET s1  == IF AnyWanted(s.heap, s.root)
               THEN add_undo([s EXCEPT !.selected = ScenePath],
                             SceneDummy(s.root), ScenePath)
               ELSE s
        out == PassLayers(s.heap, s.root)
    IN [s1 EXCEPT !.root = out, !.heap = ClearDuplicate(s.heap, out)]

\* ------------------------------------------------------------ input events
\* What the user does in one frame: kind, the path of the tree node it is
\* aimed at, and its argument.
Event(kind, path, arg) == [kind |-> kind, path |-> path, arg |-> arg]

MenuAt(s, path) == s.gesture = <<[kind |-> "menu", path |-> path]>>
DragAt(s, path) == s.gesture = <<[kind |-> "drag", path |-> path]>>

\* display_ctx_menu of a layer, and the selection the open menu forces.
node_menu(s, id, path, ev) ==
    LET s1 == CASE ev.kind = "add" ->
                    IF s.heap[id].item = "Comp"
                    THEN [s EXCEPT !.heap = [s.heap EXCEPT
                                ![id].layers = Append(@, s.next_id),
                                ![s.next_id] = AddedLayer(s.next_id, s.heap[id])],
                                   !.next_id = @ + 1]
                    ELSE s
                [] ev.kind = "duplicate" ->
                    [s EXCEPT !.heap[id].want_duplicate = TRUE]
                [] ev.kind = "remove" ->
                    [s EXCEPT !.heap[id].want_deletion = TRUE]
                [] OTHER -> s
    IN [s1 EXCEPT !.selected = path]

\* label_sameline of a layer: the visibility button in front of its label.
label_sameline(s, id, path, ev) ==
    IF ev.path = path /\ ev.kind = "toggle_visible"
    THEN [s EXCEPT !.heap[id].visible = ~@] ELSE s

\* What a tree node does with the event aimed at it: the context menu, then
\* the click.
node_event(s, id, path, ev) ==
    IF ev.kind \in {"context_menu", "add", "duplicate", "remove"}
    THEN node_menu(s, id, path, ev)
    ELSE IF ev.kind = "click" THEN [s EXCEPT !.selected = path]
    ELSE s

\* The drop of AetCompNode::display_tree: remove(from), insert(to).
\* The reorder, had it inserted at update.to whatever the side the layer
\* came from.
Reorder_at_target(ids, from, to) ==
    LET layer == ids[from + 1]
        rest  == SubSeq(ids, 1, from) \o SubSeq(ids, from + 2, Len(ids))
        dest  == IF to > Len(rest) THEN Len(rest) ELSE to
    IN VecInsert(rest, dest, layer)

\* let layer = self.layers.remove(update.from); self.layers.insert(to, layer)
Reorder(ids, from, to) ==
    LET layer == ids[from + 1]
        rest  == SubSeq(ids, 1, from) \o SubSeq(ids, from + 2, Len(ids))
        dest  == IF to > from THEN to - 1 ELSE to
    IN VecInsert(rest, dest, layer)

\* The end of AetCompNode::display_tree: a drag selects the owner of the
\* composition, the drop reorders it.
comp_drag(s, ids, path, ev) ==
    IF ev.path # path THEN ids
    ELSE IF ev.kind = "drop" THEN Reorder(ids, ev.arg[1], ev.arg[2])
    ELSE ids

comp_select(s, path, ev) ==
    IF ev.path = path /\ ev.kind = "drag" THEN [s EXCEPT !.selected = path] ELSE s

\* ----------------------------------------------------------- display_tree
RECURSIVE tree_node(_, _, _, _)

\* The loop of AetCompNode::display_tree over the layers it held on entry.
RECURSIVE tree_children(_, _, _, _, _)
tree_children(s, ids, path, k, ev) ==
    IF k > Len(ids) THEN s
    ELSE tree_children(tree_node(s, ids[k], Append(path, k - 1), ev),
                       ids, path, k + 1, ev)

\* The end of AetCompNode::display_tree for the composition of a layer.
layer_drag(s, id, path, ev) ==
    comp_select([s EXCEPT !.heap[id].layers = comp_drag(s, @, path, ev)],
                path, ev)

\* The body of AetLayerNode::display_tree: the tree of the layer's
\* composition, then the pass over it; every header is taken as open.
layer_body(s, id, path, ev) ==
    layer_pass(layer_drag(tree_children(s, s.heap[id].layers, path, 1, ev),
                          id, path, ev),
               id, path)

\* The context menu and the click of a tree node.
node_response(s, id, path, ev) ==
    IF ev.path = path /\ ev.kind \notin {"drag", "drop"}
    THEN node_event(s, id, path, ev) ELSE s

\* show_node of a layer.  A layer with children runs
\* AetLayerNode::display_tree: the body, then its own menu and click.  Any
\* other layer has only the menu and the click.
tree_node(s, id, path, ev) ==
    node_response(IF s.heap[id].item = "Comp" /\ s.heap[id].layers # <<>>
                  THEN layer_body(label_sameline(s, id, path, ev), id, path, ev)
                  ELSE label_sameline(s, id, path, ev),
                  id, path, ev)

\* The end of AetCompNode::display_tree for the root composition.
scene_drag(s, ev) ==
    comp_select([s EXCEPT !.root = comp_drag(s, @, ScenePath, ev)],
                ScenePath, ev)

\* The click on the scene's own header.
scene_click(s, ev) ==
    IF ev.path = ScenePath /\ ev.kind = "click"
    THEN [s EXCEPT !.selected = ScenePath] ELSE s

\* AetSceneNode::display_tree: the root composition's tree, the click on the
\* scene, the pass over the root composition.
scene_display_tree(s, ev) ==
    scene_pass(scene_click(
        scene_drag(tree_children(s, s.root, ScenePath, 1, ev), ev), ev))

\* The paths of the layers the tree shows.
RECURSIVE PathsUnder(_, _, _)
PathsUnder(h, ids, prefix) ==
    UNION { {Append(prefix, k - 1)}
            \cup (IF h[ids[k]].item = "Comp"
                  THEN PathsUnder(h, h[ids[k]].layers, Append(prefix, k - 1))
                  ELSE {})
          : k \in 1..Len(ids) }

LayerPaths(s) == PathsUnder(s.heap, s.root, ScenePath)

\* The layers of the composition a path owns: the root for the scene.
CompOf(s, path) ==
    IF path = ScenePath THEN s.root
    ELSE s.heap[PathFold(s.heap, s.root, path)].layers

\* The paths that own a composition one can drag in.
OwnerPaths(s) ==
    {p \in LayerPaths(s) \cup {ScenePath} : Len(CompOf(s, p)) >= 2}

\* egui's pointer state after the frame: a menu or a drag goes on through
\* frames without a pointer event while its widget is still there.
next_gesture(s, ev) ==
    CASE ev.kind = "context_menu" -> <<[kind |-> "menu", path |-> ev.path]>>
      [] ev.kind = "drag" -> <<[kind |-> "drag", path |-> ev.path]>>
      [] ev.kind \in {"idle", "undo", "menu_undo"} ->
            IF s.gesture # <<>>
               /\ s.gesture[1].path \in LayerPaths(s) \cup {ScenePath}
            THEN s.gesture ELSE <<>>
      [] OTHER -> <<>>

\* The options of the selection.
display_opts(s, ev) ==
    CASE ev.kind = "edit_name" -> edit_name(s, ev.arg[1])
      [] ev.kind = "set_item" -> set_item(s, ev.arg[1])
      [] ev.kind = "set_time" -> set_time(s, ev.arg[1], ev.arg[2])
      [] ev.kind = "toggle_audio" -> toggle_audio(s)
      [] ev.kind = "toggle_video" -> toggle_video(s)
      [] ev.kind = "toggle_3d" -> toggle_3d(s)
      [] ev.kind = "add_marker" -> add_marker(s)
      [] ev.kind = "select_key" -> select_key(s, ev.arg[1])
      [] OTHER -> s

\* The pointer state the frame ends with.
end_gesture(s, ev) == [s EXCEPT !.gesture = next_gesture(s, ev)]

\* The panels of App::update after feed_state: the options of the selection,
\* then the tree.
panels(s, ev) == end_gesture(scene_display_tree(display_opts(s, ev), ev), ev)

\* ------------------------------------------------------------- App::update
\* One frame: the undo shortcut, feed_state at the frame's time, the menu
\* bar, the panels.  A panic ends the frame where it happens.
AfterUndo(s, ev) == IF ev.kind = "undo" THEN shortcut_undo(s) ELSE s

Feed(s, time) == IF s.panic_at # "none" THEN s ELSE feed_state(s, time)

AfterFeed(s, ev, time) == Feed(AfterUndo(s, ev), time)

AfterMenu(s, ev) ==
    IF s.panic_at = "none" /\ ev.kind = "menu_undo" THEN menu_undo(s) ELSE s

AfterPanels(s, ev) == IF s.panic_at # "none" THEN s ELSE panels(s, ev)

\* What the frame leaves in input: the event, and for an undo the path
\* undo() returned and whether it came from flux; s is the state undo() was
\* called in.
Observed(s, ev) ==
    IF ev.kind \in {"undo", "menu_undo"} /\ undo_result(s) # <<>>
    THEN Event(ev.kind, undo_result(s)[1].path, <<s.flux # <<>>>>)
    ELSE ev

\* The value feed_state saw in a frame that it left with no flux pending.
AtRest(s, was) ==
    IF s.panic_at = "none" /\ Len(s.selected) >= 3 /\ s.flux = <<>>
    THEN s.heap[PathFold(s.heap, s.root, s.selected)]
    ELSE was

\* The program state the frame leaves.
Store_program(s) ==
    /\ heap' = s.heap
    /\ next_id' = s.next_id
    /\ root' = s.root
    /\ selected' = s.selected
    /\ gesture' = s.gesture
    /\ undos' = s.undos
    /\ original_layer' = s.original_layer
    /\ current_path' = s.current_path
    /\ flux' = s.flux
    /\ panic_at' = s.panic_at

\* The program state a frame without picker leaves.
Store(s) ==
    /\ Store_program(s)
    /\ UNCHANGED <<scene_current_time, display_placeholders, videos>>
    /\ UNCHANGED <<file_picker_result, channels, aet_set, loaded>>

\* The rest of the frame, from the state fed that feed_state left.
StepFrom(fed, ev) ==
    /\ Store(AfterPanels(AfterMenu(fed, ev), ev))
    /\ pre_burst' = AtRest(fed, pre_burst)
    /\ input' = Observed(IF ev.kind = "menu_undo" THEN fed ELSE St, ev)

Step(ev, dt) ==
    /\ panic_at = "none"
    /\ StepFrom(AfterFeed(St, ev, now + dt), ev)
    /\ now' = now + dt

\* A frame that runs no later than tick limit.
Frame(ev, dt, limit) ==
    /\ now + dt <= limit
    /\ Step(ev, dt)

\* ------------------------------------------------------------- the frames
\* A frame without input; dt ticks have passed since the last frame.  Every
\* frame with an input event runs one tick after the last frame.
Idle(limit) ==
    \E dt \in 1..TicksPerSecond : Frame(Event("idle", <<>>, <<>>), dt, limit)

Undo(limit) ==
    /\ has_undo(St)
    /\ Frame(Event("undo", <<>>, <<>>), 1, limit)

MenuUndo(limit) ==
    /\ has_undo(St)
    /\ Frame(Event("menu_undo", <<>>, <<>>), 1, limit)

Click(limit) ==
    \E p \in LayerPaths(St) \cup {ScenePath} :
        Frame(Event("click", p, <<>>), 1, limit)

ContextMenu(limit) ==
    \E p \in LayerPaths(St) : Frame(Event("context_menu", p, <<>>), 1, limit)

Add(limit) ==
    \E p \in LayerPaths(St) :
        /\ MenuAt(St, p)
        /\ heap[PathFold(heap, root, p)].item = "Comp"
        /\ next_id <= MaxLayers
        /\ Frame(Event("add", p, <<>>), 1, limit)

Duplicate(limit) ==
    \E p \in LayerPaths(St) :
        /\ MenuAt(St, p)
        /\ Frame(Event("duplicate", p, <<>>), 1, limit)

Remove(limit) ==
    \E p \in LayerPaths(St) :
        /\ MenuAt(St, p)
        /\ Frame(Event("remove", p, <<>>), 1, limit)

Drag(limit) ==
    \E p \in OwnerPaths(St) : Frame(Event("drag", p, <<>>), 1, limit)

Drop(limit) ==
    \E p \in OwnerPaths(St) :
        /\ DragAt(St, p)
        /\ \E from \in 0..(Len(CompOf(St, p)) - 1), to \in 0..Len(CompOf(St, p)) :
            /\ to \notin {from, from + 1}
            /\ Frame(Event("drop", p, <<from, to>>), 1, limit)

EditName(names, limit) ==
    /\ SelectedLayer(St) # NoLayer
    /\ \E n \in names :
        /\ n # heap[SelectedLayer(St)].name
        /\ Frame(Event("edit_name", selected, <<n>>), 1, limit)

SetItem(limit) ==
    /\ SelectedLayer(St) # NoLayer
    /\ \E k \in ItemKinds :
        /\ k # heap[SelectedLayer(St)].item
        /\ Frame(Event("set_item", selected, <<k>>), 1, limit)

SetTime(limit) ==
    /\ SelectedLayer(St) # NoLayer
    /\ \/ \E v \in EditTimes :
            /\ v # heap[SelectedLayer(St)].start_time
            /\ Frame(Event("set_time", selected, <<"start_time", v>>), 1, limit)
       \/ \E v \in EditTimes :
            /\ v # heap[SelectedLayer(St)].end_time
            /\ Frame(Event("set_time", selected, <<"end_time", v>>), 1, limit)

ToggleAudio(limit) ==
    /\ SelectedLayer(St) # NoLayer
    /\ Frame(Event("toggle_audio", selected, <<>>), 1, limit)

ToggleVideo(limit) ==
    /\ SelectedLayer(St) # NoLayer
    /\ Frame(Event("toggle_video", selected, <<>>), 1, limit)

Toggle3D(limit) ==
    /\ SelectedLayer(St) # NoLayer
    /\ heap[SelectedLayer(St)].video # <<>>
    /\ Frame(Event("toggle_3d", selected, <<>>), 1, limit)

AddMarker(limit) ==
    /\ SelectedLayer(St) # NoLayer
    /\ Len(heap[SelectedLayer(St)].markers) < MaxMarkers
    /\ Frame(Event("add_marker", selected, <<>>), 1, limit)

SelectKey(limit) ==
    /\ SelectedLayer(St) # NoLayer
    /\ \E k \in SelectableKeys :
        /\ k # heap[SelectedLayer(St)].selected_key
        /\ Frame(Event("select_key", selected, <<k>>), 1, limit)

ToggleVisible(limit) ==
    \E p \in LayerPaths(St) : Frame(Event("toggle_visible", p, <<>>), 1, limit)

FrameIdle == Idle(MaxTime)
FrameUndo == Undo(MaxTime)
FrameMenuUndo == MenuUndo(MaxTime)
FrameClick == Click(MaxTime)
FrameContextMenu == ContextMenu(MaxTime)
FrameAdd == Add(MaxTime)
FrameDuplicate == Duplicate(MaxTime)
FrameRemove == Remove(MaxTime)
FrameDrag == Drag(MaxTime)
FrameDrop == Drop(MaxTime)
FrameEditName == EditName(EditNames, MaxTime)
FrameSetItem == SetItem(MaxTime)

\* ------------------------------------------------------------------- Init
\* The state set_file leaves after reading an AET set: a scene whose root
\* holds the composition layer L1 with the one child A, and the video layer
\* B, which both L1 and A are linked to by their parent references; a fresh
\* undoer, no selection.
FileHeap ==
    [i \in LayerIds |->
        CASE i = 1 -> Layer("L1", "Comp", <<3>>, <<Video(0, 1, 0)>>, 2, 1)
          [] i = 2 -> Layer("B", "Video", <<>>, <<Video(10, 1, 0)>>, NoLayer, 2)
          [] i = 3 -> Layer("A", "Video", <<>>, <<Video(5, 1, 0)>>, 2, 3)
          [] OTHER -> DummyLayer]

FileRoot == <<1, 2>>
FileLayers == 3

Init ==
    /\ heap = FileHeap
    /\ next_id = FileLayers + 1
    /\ root = FileRoot
    /\ selected = <<>>
    /\ gesture = <<>>
    /\ undos = <<>>
    /\ original_layer = DummyLayer
    /\ current_path = <<>>
    /\ flux = <<>>
    /\ now = 0
    /\ panic_at = "none"
    /\ input = Event("load", <<>>, <<>>)
    /\ pre_burst = DummyLayer
    /\ scene_current_time = 0
    /\ display_placeholders = FALSE
    /\ NoPick
    /\ videos = <<>>

Next ==
    \/ FrameIdle
    \/ FrameUndo
    \/ FrameMenuUndo
    \/ FrameClick
    \/ FrameContextMenu
    \/ FrameAdd
    \/ FrameDuplicate
    \/ FrameRemove
    \/ FrameDrag
    \/ FrameDrop
    \/ FrameEditName
    \/ FrameSetItem

Spec == Init /\ [][Next]_vars

\* BurstSpec: the edits of the name of the selection, the selection itself
\* and the undo shortcut, over the time it takes to commit two bursts and
\* undo them.
BurstIdle == Idle(MaxBurstTime)
BurstUndo == Undo(MaxBurstTime)
BurstClick == Click(MaxBurstTime)
BurstEditName == EditName(BurstNames, MaxBurstTime)

NextBurst ==
    \/ BurstIdle
    \/ BurstUndo
    \/ BurstClick
    \/ BurstEditName

BurstSpec == Init /\ [][NextBurst]_vars

\* EditSpec: the edits display_opts offers for the fields of the selection,
\* the visibility button of the tree, the selection and the undo shortcut.
EditIdle == Idle(MaxEditTime)
EditUndo == Undo(MaxEditTime)
EditClick == Click(MaxEditTime)
EditEditName == EditName(EditNames, MaxEditTime)
EditSetItem == SetItem(MaxEditTime)
EditSetTime == SetTime(MaxEditTime)
EditToggleAudio == ToggleAudio(MaxEditTime)
EditAddMarker == AddMarker(MaxEditTime)
EditSelectKey == SelectKey(MaxEditTime)
EditToggleVisible == ToggleVisible(MaxEditTime)

NextEdit ==
    \/ EditIdle
    \/ EditUndo
    \/ EditClick
    \/ EditEditName
    \/ EditSetItem
    \/ EditSetTime
    \/ EditToggleAudio
    \/ EditAddMarker
    \/ EditSelectKey
    \/ EditToggleVisible

EditSpec == Init /\ [][NextEdit]_vars

\* DisplaySpec: display_visual as a function of the scene and the time.
\* The scene is the one of the file with the videos, the parent reference
\* of A and the start of L1 drawn from the sets below; A is there from its
\* frame 1 to its frame 2.  The timeline is moved.
Angles == {0 - 90, 0, 90}

\* The six angles dir.x, dir.y, dir.z, rot.x, rot.y, rot.z, at most two of
\* them set.
Rotations ==
    {a \in [1..6 -> Angles] : Cardinality({i \in 1..6 : a[i] # 0}) <= 2}

Turned(a) ==
    [Video(5, 2, 1) EXCEPT
        !.rot_z = Constant(a[6]),
        !._3d = <<[Video3D EXCEPT !.dir_x = Constant(a[1]),
                                  !.dir_y = Constant(a[2]),
                                  !.dir_z = Constant(a[3]),
                                  !.rot_x = Constant(a[4]),
                                  !.rot_y = Constant(a[5])]>>]

Deep(pos_z, scale_z, anchor_z) ==
    [Video(0, 1, 0) EXCEPT
        !._3d = <<[Video3D EXCEPT !.pos_z = Constant(pos_z),
                                  !.scale_z = Constant(scale_z),
                                  !.anchor_z = Constant(anchor_z)]>>]

\* The videos the layer A is given.
OwnVideos ==
    {Turned(a) : a \in Rotations}
    \cup {Video(p, s, a) : p \in {0, 5}, s \in {1, 2}, a \in {0, 1}}
    \cup {Deep(p, s, 0) : p \in {0 - 1, 0, 1}, s \in {1, 2}}
    \cup {[Video(5, 1, 0) EXCEPT !.opacity = Constant(o)] : o \in {0 - 1, 0, 2}}
    \cup {[Video(0, 1, 0) EXCEPT !.pos_x = <<5, 6, 7>>]}

\* The videos the layer B, which A may be linked to, is given.
ParentVideos ==
    {Video(10, 1, 0), Video(10, 2, 1),
     [Video(0, 1, 0) EXCEPT !.pos_x = <<10, 20, 30>>, !.opacity = Constant(0)]}

\* The videos the composition layer L1, which holds A, is given.
OuterVideos ==
    {Video(0, 1, 0), Video(3, 2, 0), Turned([i \in 1..6 |-> IF i = 6 THEN 90 ELSE 0])}

DisplayInit ==
    \E own \in OwnVideos, linked \in ParentVideos, outer \in OuterVideos,
       start \in {0, 1}, parent \in {NoLayer, 2} :
        /\ heap = [FileHeap EXCEPT ![1].video = <<outer>>,
                                   ![1].parent = NoLayer,
                                   ![1].start_time = start,
                                   ![2].video = <<linked>>,
                                   ![3].video = <<own>>,
                                   ![3].parent = parent,
                                   ![3].start_time = 1,
                                   ![3].end_time = 2]
        /\ next_id = FileLayers + 1
        /\ root = FileRoot
        /\ selected = <<>>
        /\ gesture = <<>>
        /\ undos = <<>>
        /\ original_layer = DummyLayer
        /\ current_path = <<>>
        /\ flux = <<>>
        /\ now = 0
        /\ panic_at = "none"
        /\ input = Event("load", <<>>, <<>>)
        /\ pre_burst = DummyLayer
        /\ scene_current_time = 0
        /\ display_placeholders = FALSE
        /\ NoPick
        /\ videos = <<>>

\* What a frame without an edit leaves: the layers as the tree panel left
\* them, and what display_visual pushed at the time of the timeline.
Shown(h, time, placeholders, ev) ==
    /\ panic_at = "none"
    /\ heap' = h
    /\ scene_current_time' = time
    /\ display_placeholders' = placeholders
    /\ videos' = display_visual(h, root, time, placeholders).videos
    /\ panic_at' = IF display_visual(h, root, time, placeholders).panic
                   THEN "display" ELSE "none"
    /\ input' = ev
    /\ UNCHANGED <<next_id, root, selected, gesture, undos, original_layer,
                   current_path, flux, now, pre_burst>>
    /\ UNCHANGED <<file_picker_result, channels, aet_set, loaded>>

\* The timeline is moved to a frame.
Seek ==
    \E time \in 0..MaxFrame :
        Shown(heap, time, display_placeholders, Event("seek", <<>>, <<time>>))

\* The visibility button of a layer is pressed.
Hide ==
    \E p \in LayerPaths(St) :
        Shown(scene_display_tree(St, Event("toggle_visible", p, <<>>)).heap,
              scene_current_time, display_placeholders,
              Event("toggle_visible", p, <<>>))

NextDisplay == Seek

DisplaySpec == DisplayInit /\ [][NextDisplay]_vars

\* SkipSpec: display_visual as a function of the timing and the visibility
\* of the layers.  The scene is the one of the file with start_time,
\* end_time and flags drawn from the sets below, every layer visible as
\* AetCompNode::create makes it; the timeline is moved and the visibility
\* buttons are pressed.
Timed(layer, start, end, active) ==
    [layer EXCEPT !.start_time = start, !.end_time = end,
                  !.flags = [video_active |-> active], !.visible = active]

SkipInit ==
    \E s1 \in {0, 1}, e1 \in {MaxFrame - 1, MaxFrame}, a1 \in BOOLEAN,
       s2 \in {0, 1}, a2 \in BOOLEAN,
       s3 \in {0, 1}, e3 \in {1, 2}, a3 \in BOOLEAN :
        /\ heap = [FileHeap EXCEPT ![1] = Timed(@, s1, e1, a1),
                                   ![2] = Timed(@, s2, MaxFrame, a2),
                                   ![3] = Timed(@, s3, e3, a3)]
        /\ next_id = FileLayers + 1
        /\ root = FileRoot
        /\ selected = <<>>
        /\ gesture = <<>>
        /\ undos = <<>>
        /\ original_layer = DummyLayer
        /\ current_path = <<>>
        /\ flux = <<>>
        /\ now = 0
        /\ panic_at = "none"
        /\ input = Event("load", <<>>, <<>>)
        /\ pre_burst = DummyLayer
        /\ scene_current_time = 0
        /\ display_placeholders = FALSE
        /\ NoPick
        /\ videos = <<>>

NextSkip ==
    \/ Seek
    \/ Hide

SkipSpec == SkipInit /\ [][NextSkip]_vars

\* BlockSpec: the "Video" and "3D" checkboxes of the selection, the
\* selection and the undo shortcut.
BlockIdle == Idle(MaxEditTime)
BlockUndo == Undo(MaxEditTime)
BlockClick == Click(MaxEditTime)
BlockToggleVideo == ToggleVideo(MaxEditTime)
BlockToggle3D == Toggle3D(MaxEditTime)

NextBlock ==
    \/ BlockIdle
    \/ BlockUndo
    \/ BlockClick
    \/ BlockToggleVideo
    \/ BlockToggle3D

BlockSpec == Init /\ [][NextBlock]_vars

\* PassSpec: the passes over compositions that hold layers to remove and
\* layers to duplicate at once.  The root composition holds L1, B and a
\* third layer C; the want flags of the four layers are as the menus of the
\* frame, or a pass that has not come to a shared layer yet, leave them for
\* the passes of the next traversal.
Wanted(layer, deletion, duplicate) ==
    [layer EXCEPT !.want_deletion = deletion, !.want_duplicate = duplicate]

PassInit ==
    \E del \in [1..MaxLayers -> BOOLEAN], dup \in [1..MaxLayers -> BOOLEAN] :
        /\ heap = [i \in LayerIds |->
                     Wanted(IF i = MaxLayers
                            THEN Layer("C", "Video", <<>>, <<>>, NoLayer, i)
                            ELSE FileHeap[i],
                            del[i], dup[i])]
        /\ next_id = MaxLayers + 1
        /\ root = <<1, 2, MaxLayers>>
        /\ selected = <<>>
        /\ gesture = <<>>
        /\ undos = <<>>
        /\ original_layer = DummyLayer
        /\ current_path = <<>>
        /\ flux = <<>>
        /\ now = 0
        /\ panic_at = "none"
        /\ input = Event("load", <<>>, <<>>)
        /\ pre_burst = DummyLayer
        /\ scene_current_time = 0
        /\ display_placeholders = FALSE
        /\ NoPick
        /\ videos = <<>>

PassIdle == Idle(MaxEditTime)
PassUndo == Undo(MaxEditTime)

NextPass ==
    \/ PassIdle
    \/ PassUndo

PassSpec == PassInit /\ [][NextPass]_vars

\* PickSpec: the open shortcut, the picker threads and the poll of
\* App::update.  Nothing is selected and no pointer event arrives.
MaxPickTime == 5

\* set_file for an aet set: the scene of the file, a new undoer, and no
\* selection.
set_file(s) ==
    [s EXCEPT !.heap = FileHeap, !.root = FileRoot, !.next_id = FileLayers + 1,
              !.undos = <<>>, !.original_layer = DummyLayer,
              !.current_path = <<>>, !.flux = <<>>, !.selected = <<>>]

\* The shortcuts of the input closure: the open shortcut clears the
\* selection.
shortcuts(s, open) == IF open THEN [s EXCEPT !.selected = <<>>] ELSE s

\* A frame of App::update: the shortcuts, feed_state, the poll, the panels.
PickFrame(open, p, ev) ==
    /\ panic_at = "none"
    /\ now + 1 <= MaxPickTime
    /\ Store_program(AfterPanels(
            IF poll(p).loaded # p.loaded
            THEN set_file(Feed(shortcuts(St, open), now + 1))
            ELSE Feed(shortcuts(St, open), now + 1),
            Event("idle", <<>>, <<>>)))
    /\ file_picker_result' = poll(p).file_picker_result
    /\ channels' = poll(p).channels
    /\ aet_set' = poll(p).aet_set
    /\ loaded' = poll(p).loaded
    /\ now' = now + 1
    /\ input' = ev
    /\ UNCHANGED <<pre_burst, scene_current_time, display_placeholders, videos>>

\* A frame without input.
PickTick == PickFrame(FALSE, Pk, Event("tick", <<>>, <<>>))

\* A frame with the open shortcut.
PickOpen ==
    /\ Cardinality(Spawned(Pk)) < MaxPicks
    /\ PickFrame(TRUE, open_file(Pk), Event("open", <<>>, <<>>))

\* A step of a picker thread leaves the program of the frames alone.
OffThread ==
    UNCHANGED <<heap, next_id, root, selected, gesture, undos, original_layer,
                current_path, flux, now, panic_at, pre_burst,
                scene_current_time, display_placeholders, videos,
                file_picker_result, aet_set, loaded>>

\* The thread of channel c: the dialog returns None or a file; tx.send is Ok
\* while the Receiver lives, and its unwrap panics once it was dropped.
ThreadSend ==
    \E c \in Channels, pick \in {<<>>} \cup {<<f>> : f \in Files} :
        /\ channels[c].thread = "picking"
        /\ channels' = [channels EXCEPT ![c] =
                            IF @.rx = "held"
                            THEN Channel("sent", <<pick>>, @.rx)
                            ELSE Channel("panicked", <<>>, @.rx)]
        /\ input' = Event("send", <<>>, <<c>>)
        /\ OffThread

\* The thread of channel c ends before it sends: build().unwrap() panics.
ThreadFail ==
    \E c \in Channels :
        /\ channels[c].thread = "picking"
        /\ channels' = [channels EXCEPT ![c].thread = "panicked"]
        /\ input' = Event("fail", <<>>, <<c>>)
        /\ OffThread

NextPick ==
    \/ PickTick
    \/ PickOpen
    \/ ThreadSend
    \/ ThreadFail

PickSpec == Init /\ [][NextPick]_vars

\* RenderSpec: display_visual as a function of the items, the sources, the
\* parent references and the timing.  The scene is the one of the file with
\* the item, the sources and the parent reference of A, the sources of B,
\* and the parent reference, the video and the timing of L1 drawn from the
\* sets below; the videos of A and of B move with the frame.  The timeline
\* is moved and the "Display placeholders" box is ticked.
SourceLists ==
    {<<>>, <<Source(FALSE)>>, <<Source(TRUE)>>, <<Source(FALSE), Source(TRUE)>>}

\* A with the item, the sources and the parent it is given; it lasts as long
\* as the frames L1 can give it.
Rendered(layer, item, sources, parent) ==
    [layer EXCEPT !.item = item, !.sources = sources, !.parent = parent,
                  !.video = <<[Video(0, 1, 0) EXCEPT !.pos_x = <<5, 6, 7, 8>>]>>,
                  !.end_time = 2 * MaxFrame + 2]

\* L1 with the parent, the video and the timing it is given.
Remapped(layer, parent, video, start, time_scale, offset) ==
    [layer EXCEPT !.parent = parent, !.video = <<video>>,
                  !.start_time = start, !.time_scale = time_scale,
                  !.offset_time = offset]

RenderInit ==
    \E item \in {"None", "Video", "Audio"}, sources \in SourceLists,
       parent \in {NoLayer, 1, 2}, linked \in {<<>>, <<Source(TRUE)>>},
       outer_parent \in {NoLayer, 2}, outer \in {Video(0, 1, 0), Video(3, 2, 1)},
       start \in {0, 1}, time_scale \in {1, 2}, offset \in {0, 1} :
        /\ item # "Video" => sources = <<>>
        /\ heap = [FileHeap EXCEPT
                       ![1] = Remapped(@, outer_parent, outer, start,
                                       time_scale, offset),
                       ![2].sources = linked,
                       ![2].video = <<[Video(0, 2, 0) EXCEPT
                                           !.pos_x = <<10, 20, 30, 40>>,
                                           !.opacity = <<1, 0, 1, 1>>]>>,
                       ![3] = Rendered(@, item, sources, parent)]
        /\ next_id = FileLayers + 1
        /\ root = FileRoot
        /\ selected = <<>>
        /\ gesture = <<>>
        /\ undos = <<>>
        /\ original_layer = DummyLayer
        /\ current_path = <<>>
        /\ flux = <<>>
        /\ now = 0
        /\ panic_at = "none"
        /\ input = Event("load", <<>>, <<>>)
        /\ pre_burst = DummyLayer
        /\ scene_current_time = 0
        /\ display_placeholders = FALSE
        /\ NoPick
        /\ videos = <<>>

\* The "Display placeholders" box of the scene is ticked or cleared.
Placeholders ==
    Shown(heap, scene_current_time, ~display_placeholders,
          Event("placeholders", <<>>, <<>>))

NextRender ==
    \/ Seek
    \/ Placeholders

RenderSpec == RenderInit /\ [][NextRender]_vars

\* CapSpec: the program after n pause-separated renames of L1, for n up to
\* the capacity of the history: L1 is selected, the history holds its n
\* earlier values, oldest first.  Then the frames of BurstSpec and the
\* removal of a layer.
RenamedTo(n) == IF n = 0 THEN "L1" ELSE ToString(n)

CapHistory(n) ==
    [k \in 1..n |-> [layer |-> [FileHeap[1] EXCEPT !.name = RenamedTo(k - 1)],
                     path |-> <<0, 0, 0>>]]

CapInit ==
    \E n \in (UndoCapacity - CapSlack)..UndoCapacity :
        /\ heap = [FileHeap EXCEPT ![1].name = RenamedTo(n)]
        /\ next_id = FileLayers + 1
        /\ root = FileRoot
        /\ selected = <<0, 0, 0>>
        /\ gesture = <<>>
        /\ undos = CapHistory(n)
        /\ original_layer = [FileHeap[1] EXCEPT !.name = RenamedTo(n)]
        /\ current_path = <<0, 0, 0>>
        /\ flux = <<>>
        /\ now = 0
        /\ panic_at = "none"
        /\ input = Event("idle", <<>>, <<>>)
        /\ pre_burst = [FileHeap[1] EXCEPT !.name = RenamedTo(n)]
        /\ scene_current_time = 0
        /\ display_placeholders = FALSE
        /\ NoPick
        /\ videos = <<>>

CapIdle == Idle(MaxCapTime)
CapUndo == Undo(MaxCapTime)
CapClick == Click(MaxCapTime)
CapEditName == EditName(EditNames, MaxCapTime)
CapContextMenu == ContextMenu(MaxCapTime)
CapRemove == Remove(MaxCapTime)

NextCap ==
    \/ CapIdle
    \/ CapUndo
    \/ CapClick
    \/ CapEditName
    \/ CapContextMenu
    \/ CapRemove

CapSpec == CapInit /\ [][NextCap]_vars

\* ------------------------------------------------------------- properties
\* The allocations the tree reaches from the root composition.
LiveIds == {PathFold(heap, root, p) : p \in PathsUnder(heap, root, ScenePath)}

\* The persisted fields of a layer value.
Persisted(l) == [name |-> l.name, item |-> l.item, layers |-> l.layers,
                 video |-> l.video]

\* The layer the selection folds to before the frame.
SelectedId == PathFold(heap, root, selected)

\* A frame whose only call into the undoer is feed_state, on the path the
\* undoer already tracks: no undo, and no pass that finds a want flag.
Tracking ==
    /\ panic_at = "none" /\ panic_at' = "none"
    /\ input'.kind \notin {"undo", "menu_undo", "remove", "duplicate"}
    /\ \A i \in LiveIds : ~heap[i].want_deletion /\ ~heap[i].want_duplicate
    /\ Len(selected) >= 3
    /\ selected = current_path

\* The frame in which feed_state finds the burst over.
Commits ==
    /\ Tracking
    /\ flux # <<>>
    /\ LayerEq(heap, flux[1].layer, heap[SelectedId])
    /\ now' >= flux[1].time + QuietTicks

\* C1: a burst of edits to the layer at path P, ended by a full quiet second
\* under the same selection, makes feed_state push exactly one entry: the
\* frame that finds the burst over pushes (value before the burst, P), makes
\* the stable value the baseline and clears the pending state; every other
\* frame of the burst pushes nothing and keeps the baseline, and a frame that
\* finds the layer equal to the baseline with nothing pending pushes nothing.
C1_BurstCoalesced ==
    [][ /\ Commits =>
            /\ undos' = Append(undos, [layer |-> original_layer, path |-> selected])
            /\ LayerEq(heap, original_layer, pre_burst)
            /\ original_layer' = heap[SelectedId]
            /\ flux' = <<>>
        /\ (Tracking /\ ~Commits /\ flux # <<>>) =>
            /\ undos' = undos
            /\ original_layer' = original_layer
            /\ flux' # <<>>
        /\ (Tracking /\ flux = <<>>) =>
            /\ undos' = undos
            /\ original_layer' = original_layer
            /\ flux' = IF LayerEq(heap, original_layer, heap[SelectedId])
                       THEN <<>>
                       ELSE <<[time |-> now', layer |-> heap[SelectedId]]>>
      ]_vars

\* A quiet second has committed the burst on L1 as one entry.
C1_Witness ==
    /\ input.kind = "idle"
    /\ now = 2 + TicksPerSecond + 1
    /\ undos = <<[layer |-> FileHeap[1], path |-> <<0, 0, 0>>]>>
    /\ selected = <<0, 0, 0>>
    /\ original_layer.name = "y"
    /\ heap[1].name = "y"
    /\ flux = <<>>

\* C2: undo() with an edit pending returns the baseline with the current
\* path, which is a value the layer at that path had before the edit, clears
\* the pending state and leaves the history as it was; the frame writes the
\* baseline over the layer at that path.
C2_UndoWhilePending ==
    [][ (input'.kind \in {"undo", "menu_undo"} /\ input'.arg = <<TRUE>>) =>
            /\ input'.path = current_path
            /\ original_layer.rc = PathFold(heap, root, current_path)
            /\ panic_at' = "none" =>
                /\ undos' = undos
                /\ flux' = <<>>
                /\ Persisted(heap'[PathFold(heap, root, current_path)])
                     = Persisted(original_layer)
      ]_vars

\* The layers of the composition at a path: the root for the scene.
CompAt(h, r, path) ==
    IF path = ScenePath THEN r ELSE h[PathFold(h, r, path)].layers

Front(path) == SubSeq(path, 1, Len(path) - 1)

RemoveAt(ids, k) == SubSeq(ids, 1, k - 1) \o SubSeq(ids, k + 1, Len(ids))

Count(ids, x) == Cardinality({k \in 1..Len(ids) : ids[k] = x})

\* C3: an undo that directly follows an undo which popped an entry of the
\* selected path, with a further entry of that path on top of the history,
\* pops that entry and sets the layer to its value: successive undos walk
\* the committed values back in reverse order.
C3_UndosWalkBack ==
    [][ ( /\ input.kind = "undo" /\ input.arg = <<FALSE>>
          /\ input.path = selected
          /\ input'.kind = "undo"
          /\ panic_at' = "none"
          /\ undos # <<>>
          /\ undos[Len(undos)].path = selected ) =>
            /\ undos' = SubSeq(undos, 1, Len(undos) - 1)
            /\ Persisted(heap'[SelectedId]) = Persisted(undos[Len(undos)].layer)
      ]_vars

\* C4: removing a layer that is the duplicate of its neighbour takes exactly
\* that one position out of the composition, which is then what it was
\* before the duplication.
C4_RemoveDuplicateRestores ==
    [][ LET p   == input'.path
            ids == CompAt(heap, root, Front(p))
            k   == p[Len(p)] + 1
        IN ( /\ input'.kind = "remove"
             /\ panic_at' = "none"
             /\ \E j \in {k - 1, k + 1} \cap (1..Len(ids)) :
                    LayerEq(heap, heap[ids[j]], heap[ids[k]]) ) =>
                CompAt(heap', root', Front(p)) = RemoveAt(ids, k)
      ]_vars

\* C5: every layer object occupies exactly one position of the tree: no two
\* paths lead to the same allocation.
C5_OnePositionPerLayer ==
    \A p, q \in PathsUnder(heap, root, ScenePath) :
        p # q => PathFold(heap, root, p) # PathFold(heap, root, q)

\* C6: the duplication pass puts one copy next to every flagged position and
\* nothing else: the composition grows by the number of flagged positions,
\* every layer that is not flagged is there as often as before, and no
\* layer wants a duplicate afterwards.
C6_OneCopyPerFlagged ==
    [][ LET p   == input'.path
            ids == CompAt(heap, root, Front(p))
            x   == ids[p[Len(p)] + 1]
            out == CompAt(heap', root', Front(p))
        IN (input'.kind = "duplicate" /\ panic_at' = "none") =>
            /\ Len(out) = Len(ids) + Count(ids, x)
            /\ \A k \in 1..Len(ids) :
                    ids[k] # x => Count(out, ids[k]) = Count(ids, ids[k])
            /\ \A k \in 1..Len(out) : ~heap'[out[k]].want_duplicate
      ]_vars

\* C7: once the layer a parent field names is no longer in the tree, the
\* field resolves to nothing: the child is placed by its own video alone.
C7_RemovedParentUnlinked ==
    \A i \in LiveIds :
        (heap[i].parent # NoLayer /\ heap[i].parent \notin LiveIds) =>
            layer_mat(heap, i, IdentityMat, 1, 0)
              = layer_mat([heap EXCEPT ![i].parent = NoLayer], i, IdentityMat, 1, 0)

\* C8: the entry the next undo would return addresses, by its path, the
\* layer its snapshot was taken from.
C8_UndoAddressesSource ==
    \A k \in 1..Len(undo_result(St)) :
        Len(undo_result(St)[k].path) >= 3 =>
            PathFold(heap, root, undo_result(St)[k].path)
              = undo_result(St)[k].layer.rc

\* C9: feed_state never panics, whatever layer the selection path leads or
\* fails to lead to.
C9_FeedStateNeverPanics == panic_at # "feed_state"

\* C10: installing an undo entry never aborts: a path that does not resolve
\* leaves the graph and the undoer as they were.
C10_UndoInstallNeverAborts == panic_at # "undo"

\* The layers below a layer: those of its composition, and theirs, down to
\* depth k.
RECURSIVE Below(_, _, _)
Below(h, id, k) ==
    IF k = 0 \/ h[id].item # "Comp" THEN {}
    ELSE UNION { {h[id].layers[j]} \cup Below(h, h[id].layers[j], k - 1)
                 : j \in 1..Len(h[id].layers) }

\* C11: no layer of the tree has a parent field that names the layer itself
\* or a layer below it.
C11_ParentNotSelfOrBelow ==
    \A i \in LiveIds :
        heap[i].parent # NoLayer =>
            /\ heap[i].parent # i
            /\ heap[i].parent \notin Below(heap, i, MaxLayers)

\* A frame whose only call into the undoer is feed_state, and in which
\* feed_state finds a layer selected that is not at the path it tracks.
Switching ==
    /\ panic_at = "none" /\ panic_at' = "none"
    /\ input'.kind \notin {"undo", "menu_undo", "remove", "duplicate"}
    /\ \A i \in LiveIds : ~heap[i].want_deletion /\ ~heap[i].want_duplicate
    /\ Len(selected) >= 3
    /\ selected # current_path

\* C12: when feed_state finds the selection changed from the layer path P it
\* tracks to another layer path Q, it pushes (baseline, P) if an edit is
\* pending and nothing otherwise; either way nothing is pending afterwards,
\* and the baseline is the live value at Q with Q as the current path.
C12_SelectionChangeFlushes ==
    [][ Switching =>
            /\ undos' = IF flux # <<>>
                        THEN Append(undos, [layer |-> original_layer,
                                            path |-> current_path])
                        ELSE undos
            /\ flux' = <<>>
            /\ original_layer' = heap[SelectedId]
            /\ current_path' = selected
      ]_vars

\* The pending rename of L1 has been pushed under the path of L1 by the
\* frame that found B selected.
C12_Witness ==
    /\ undos = <<[layer |-> FileHeap[1], path |-> <<0, 0, 0>>]>>
    /\ heap[1].name = "x"
    /\ current_path = <<0, 0, 1>>
    /\ original_layer = FileHeap[2]
    /\ selected = <<0, 0, 1>>
    /\ flux = <<>>

\* The history after is the history before with k entries pushed, the
\* oldest dropped as far as the capacity asks: its first entries are the
\* most recent ones of before, in order.
Pushed(before, after, k) ==
    /\ Len(after) = IF Len(before) + k > UndoCapacity
                    THEN UndoCapacity ELSE Len(before) + k
    /\ \A j \in 1..(Len(after) - k) :
            after[j] = before[j + (Len(before) + k - Len(after))]

\* C13: the history never holds more than 100 entries; a frame with an undo
\* leaves it as it was or without its last entry, and any other frame
\* pushes at most two entries (one by feed_state, one by a pass), dropping
\* the oldest ones on overflow and keeping the most recent ones in order.
C13_HistoryBounded ==
    [][ /\ Len(undos') <= UndoCapacity
        /\ panic_at' = "none" =>
            IF input'.kind \in {"undo", "menu_undo"}
            THEN undos' = undos
                 \/ undos' = SubSeq(undos, 1, Len(undos) - 1)
            ELSE \E k \in 0..2 :
                    /\ Pushed(undos, undos', k)
                    /\ k = 0 => undos' = undos
      ]_vars

\* A push onto the full history has dropped its oldest entry, the value L1
\* was loaded with: the 99 most recent entries are kept, then the new one.
C13_Witness ==
    /\ Len(undos) = UndoCapacity
    /\ undos[1].layer.name = RenamedTo(1)
    /\ undos[UndoCapacity - 1].layer.name = RenamedTo(UndoCapacity - 1)
    /\ undos[UndoCapacity].layer.name = RenamedTo(UndoCapacity)
    /\ heap[1].name = "x"

\* The persisted fields a layer value holds itself.
Own(l) ==
    [name |-> l.name, start_time |-> l.start_time, end_time |-> l.end_time,
     offset_time |-> l.offset_time, time_scale |-> l.time_scale,
     flags |-> l.flags, quality |-> l.quality, item |-> l.item,
     sources |-> l.sources,
     markers |-> l.markers, video |-> l.video, audio |-> l.audio]

\* What a layer value persists, its composition included, k levels deep.
RECURSIVE Saved(_, _, _)
Saved(h, l, k) ==
    [own |-> Own(l),
     content |-> IF l.item = "Comp" /\ k > 0
                 THEN [j \in 1..Len(l.layers) |-> Saved(h, h[l.layers[j]], k - 1)]
                 ELSE <<>>]

\* The value a differs from the value b in a persisted field of its own, or
\* its composition holds another number of layers, or another layer
\* somewhere that persists something else.
PersistedDiffers(h, a, b) ==
    \/ Own(a) # Own(b)
    \/ /\ a.item = "Comp"
       /\ \/ Len(a.layers) # Len(b.layers)
          \/ \E j \in 1..Len(a.layers) :
                /\ a.layers[j] # b.layers[j]
                /\ Saved(h, h[a.layers[j]], MaxLayers)
                        # Saved(h, h[b.layers[j]], MaxLayers)

\* C14: in a frame whose only call into the undoer is feed_state on the
\* tracked path, feed_state starts or refreshes pending exactly when the
\* live layer differs in a persisted field (name, timing, flags, quality,
\* content, markers, video, audio) from the value it last saw; a layer that
\* differs in transient fields only (visible, selected_key, the want flags)
\* leaves pending as it is, and the only entry such a frame can push is the
\* commit of a burst that was pending before.
C14_OnlyPersistedFieldsCount ==
    [][ Tracking =>
            IF PersistedDiffers(heap,
                                IF flux = <<>> THEN original_layer
                                               ELSE flux[1].layer,
                                heap[SelectedId])
            THEN /\ flux' = <<[time |-> now', layer |-> heap[SelectedId]]>>
                 /\ undos' = undos
            ELSE /\ flux' = flux \/ flux' = <<>>
                 /\ undos' # undos =>
                        /\ flux # <<>>
                        /\ now' >= flux[1].time + QuietTicks
      ]_vars

\* L1 was hidden, which started nothing, and then given audio, which
\* started pending in the next frame.
C14_Witness ==
    /\ selected = <<0, 0, 0>>
    /\ current_path = <<0, 0, 0>>
    /\ ~heap[1].visible
    /\ original_layer.visible
    /\ original_layer.audio = <<>>
    /\ heap[1].audio # <<>>
    /\ flux = <<[time |-> now, layer |-> heap[1]]>>
    /\ now = 4
    /\ undos = <<>>

\* ------------------------------------------------- properties of display
\* What display_visual pushed for a layer.
VideosOf(id) == SelectSeq(videos, LAMBDA e : e.layer = id)

\* The frame the layers of L1's composition are displayed at.
LocalTime ==
    (scene_current_time - heap[1].start_time) * heap[1].time_scale
        + heap[1].offset_time

\* The video has no angle set at the frame.
Flat(video, frame) ==
    /\ sample_dir(video, frame) = <<0, 0, 0>>
    /\ sample_rot(video, frame) = <<0, 0, 0>>

\* The X axis of a transform: the X component of its basis vector x and of
\* its translation.  XIdentity is that of the identity; XPlaced is what a
\* flat video makes of it: translate by pos_x, scale by scale_x, translate
\* by -anchor_x along the scaled basis.
XAxis(xx, wx) == [xx |-> xx, wx |-> wx]

XIdentity == XAxis(1, 0)

XPlaced(in, video, frame) ==
    XAxis(in.xx * interpolate(video.scale_x, frame),
          in.wx + in.xx * interpolate(video.pos_x, frame)
                - in.xx * interpolate(video.scale_x, frame)
                        * interpolate(video.anchor_x, frame))

\* The opacity a video leaves of the opacity o.
Faded(o, video, frame) ==
    o * (IF interpolate(video.opacity, frame) < 0 THEN 0
         ELSE IF interpolate(video.opacity, frame) > 1 THEN 1
         ELSE interpolate(video.opacity, frame))

\* The videos of L1, B and A.
OuterVideo == heap[1].video[1]
LinkedVideo == heap[2].video[1]
OwnVideo == heap[3].video[1]

\* C15: for the layer A linked to B by its parent field, B's video is
\* applied to the incoming transform and opacity first and A's own second,
\* both read at the frame of the composition that holds A: with flat videos
\* the X axis of what is pushed for A is A's placement of B's placement of
\* the incoming X axis, and the opacity is faded by B and then by A.
C15_ParentVideoFirst ==
    \A k \in 1..Len(VideosOf(3)) :
        (/\ heap[3].parent = 2
         /\ Flat(OuterVideo, scene_current_time)
         /\ Flat(LinkedVideo, LocalTime)
         /\ Flat(OwnVideo, LocalTime)) =>
            /\ XAxis(VideosOf(3)[k].mat.x[1], VideosOf(3)[k].mat.w[1])
                = XPlaced(XPlaced(XPlaced(XIdentity, OuterVideo, scene_current_time),
                                  LinkedVideo, LocalTime),
                          OwnVideo, LocalTime)
            /\ VideosOf(3)[k].opacity
                = Faded(Faded(Faded(1, OuterVideo, scene_current_time),
                              LinkedVideo, LocalTime),
                        OwnVideo, LocalTime)

\* A with pos_x = 5 linked to B with pos_x = 10, everything else identity:
\* the X translation pushed is 15.
C15_Witness ==
    /\ heap[3].parent = 2
    /\ OuterVideo = Video(0, 1, 0)
    /\ LinkedVideo = Video(10, 1, 0)
    /\ OwnVideo = Video(5, 1, 0)
    /\ Len(VideosOf(3)) = 1
    /\ VideosOf(3)[1].mat.w = <<15, 0, 0>>

\* A is displayed alone: no parent field, the identity coming in.
Alone ==
    /\ heap[3].parent = NoLayer
    /\ OuterVideo = Video(0, 1, 0)

\* C16: a video with a Video3D block whose pos_z reads p, with zero anchor,
\* unit scale and no rotation, applied to the identity, leaves the Z
\* translation -p.
C16_ZTranslationNegated ==
    \A k \in 1..Len(VideosOf(3)) :
        (/\ Alone
         /\ OwnVideo._3d # <<>>
         /\ Flat(OwnVideo, LocalTime)
         /\ sample_scale(OwnVideo, LocalTime) = <<1, 1, 1>>
         /\ sample_anchor(OwnVideo, LocalTime) = <<0, 0, 0>>) =>
            VideosOf(3)[k].mat.w[3]
                = 0 - interpolate(OwnVideo._3d[1].pos_z, LocalTime)

\* C17: with no rotation, a video applied to the identity leaves the X
\* basis scaled by scale_x and the X translation pos_x - scale_x * anchor_x:
\* translate(pos), scale, translate(-anchor).
C17_TranslateScaleAnchor ==
    \A k \in 1..Len(VideosOf(3)) :
        (Alone /\ Flat(OwnVideo, LocalTime)) =>
            /\ VideosOf(3)[k].mat.x
                = <<interpolate(OwnVideo.scale_x, LocalTime), 0, 0>>
            /\ VideosOf(3)[k].mat.w[1]
                = interpolate(OwnVideo.pos_x, LocalTime)
                    - interpolate(OwnVideo.scale_x, LocalTime)
                        * interpolate(OwnVideo.anchor_x, LocalTime)

\* pos_x = 5, scale_x = 2, anchor_x = 1: the X basis is 2, the X
\* translation 5 - 2 * 1.
C17_Witness ==
    /\ Alone
    /\ OwnVideo = Video(5, 2, 1)
    /\ Len(VideosOf(3)) = 1
    /\ VideosOf(3)[1].mat.x = <<2, 0, 0>>
    /\ VideosOf(3)[1].mat.w = <<3, 0, 0>>

\* The video reads the value that changes nothing on every curve.
IsIdentity(video, frame) ==
    /\ sample_pos(video, frame) = <<0, 0, 0>>
    /\ sample_scale(video, frame) = <<1, 1, 1>>
    /\ sample_anchor(video, frame) = <<0, 0, 0>>
    /\ Flat(video, frame)
    /\ interpolate(video.opacity, frame) = 1

\* What L1 hands the layers of its composition.
Incoming == layer_mat(heap, 1, IdentityMat, 1, scene_current_time)

\* C18: a layer with no parent field and an identity video is pushed with
\* the transform and the opacity that came in, whatever they are.
C18_IdentityVideoChangesNothing ==
    \A k \in 1..Len(VideosOf(3)) :
        (heap[3].parent = NoLayer /\ IsIdentity(OwnVideo, LocalTime)) =>
            /\ VideosOf(3)[k].mat = Incoming.m
            /\ VideosOf(3)[k].opacity = Incoming.opacity

\* An identity video with a Video3D block under L1 turned, scaled and moved.
C18_Witness ==
    /\ heap[3].parent = NoLayer
    /\ OwnVideo = Deep(0, 1, 0)
    /\ OuterVideo = Turned([i \in 1..6 |-> IF i = 6 THEN 90 ELSE 0])
    /\ Len(VideosOf(3)) = 1
    /\ VideosOf(3)[1].mat = Mat(<<0, 2, 0>>, <<0 - 1, 0, 0>>, <<0, 0, 1>>, <<5, 0 - 2, 0>>)

\* The video with every angle that is not positive taken away.
Unset(curve) == IF \A i \in 1..Len(curve) : curve[i] <= 0 THEN Constant(0) ELSE curve

WithoutIdle(video) ==
    [video EXCEPT
        !.rot_z = Unset(@),
        !._3d = IF @ = <<>> THEN <<>>
                ELSE <<[@[1] EXCEPT !.dir_x = Unset(@), !.dir_y = Unset(@),
                                    !.dir_z = Unset(@), !.rot_x = Unset(@),
                                    !.rot_y = Unset(@)]>>]

\* C19: an angle of dir.x, dir.y, dir.z, rot.x, rot.y, rot.z that reads zero
\* or less leaves the transform as if it were not there: what is pushed for
\* A is what its video without those angles would have pushed.
C19_RotationOnlyWhenPositive ==
    \A k \in 1..Len(VideosOf(3)) :
        VideosOf(3)[k].mat
            = layer_mat([heap EXCEPT ![3].video = <<WithoutIdle(OwnVideo)>>], 3,
                        Incoming.m, Incoming.opacity, LocalTime).m

\* dir.x is negative and rot.y positive: only rot.y has turned the basis.
C19_Witness ==
    /\ Alone
    /\ OwnVideo = Turned(<<0 - 90, 0, 0, 0, 90, 0>>)
    /\ Len(VideosOf(3)) = 1
    /\ VideosOf(3)[1].mat.x = <<0, 0, 2>>
    /\ VideosOf(3)[1].mat.y = <<0, 1, 0>>

\* The layer is within its time span at the frame and its visibility is on.
Active(layer, frame) ==
    /\ layer.start_time <= frame
    /\ frame < layer.end_time
    /\ layer.flags.video_active
    /\ layer.visible

\* C20: a layer is skipped, with everything in its composition, exactly
\* when the frame it is displayed at is before its start_time or not before
\* its end_time, or its visibility is off: once the scene has been
\* displayed, B is pushed exactly when it is active at the scene's time, and
\* A exactly when L1 is active at the scene's time and A is at L1's frame.
C20_SkippedOutsideSpanOrHidden ==
    input.kind \in {"seek", "toggle_visible"} =>
        /\ Len(VideosOf(2)) = (IF Active(heap[2], scene_current_time) THEN 1 ELSE 0)
        /\ Len(VideosOf(3)) = (IF /\ Active(heap[1], scene_current_time)
                                  /\ Active(heap[3], LocalTime)
                               THEN 1 ELSE 0)

\* A is pushed at L1's frame 1, its only one, while the scene is at 2; B,
\* hidden by its button, is not.
C20_Witness ==
    /\ heap[1].start_time = 1
    /\ heap[3].start_time = 1 /\ heap[3].end_time = 2
    /\ heap[2].flags.video_active /\ ~heap[2].visible
    /\ scene_current_time = 2
    /\ Len(VideosOf(3)) = 1
    /\ Len(VideosOf(2)) = 0
    /\ input.kind = "toggle_visible"

\* display_visual has run on the state and come to its end.
Displayed ==
    /\ input.kind \in {"seek", "toggle_visible", "placeholders"}
    /\ panic_at = "none"

\* display has come to A: L1 and A are not skipped.
Evaluated ==
    /\ Displayed
    /\ Active(heap[1], scene_current_time)
    /\ Active(heap[3], LocalTime)

\* C21: once it is evaluated, a layer whose item is a video pushes exactly
\* one video when its first source has a sprite, and exactly one placeholder
\* when no sprite is bound (no source at all, or a first source without a
\* sprite) and placeholders are displayed; a layer whose item is None or
\* Audio pushes nothing.
C21_OneInstructionPerVideoItem ==
    Evaluated =>
        /\ (/\ heap[3].item = "Video"
            /\ heap[3].sources # <<>>
            /\ heap[3].sources[1].sprite # <<>>) =>
                /\ Len(VideosOf(3)) = 1
                /\ ~VideosOf(3)[1].is_empty
        /\ (/\ heap[3].item = "Video"
            /\ heap[3].sources = <<>> \/ heap[3].sources[1].sprite = <<>>
            /\ display_placeholders) =>
                /\ Len(VideosOf(3)) = 1
                /\ VideosOf(3)[1].is_empty
        /\ heap[3].item \in {"None", "Audio"} => VideosOf(3) = <<>>

\* The curves calc_mat interpolates for a video: the eight of LayerVideo and,
\* with a Video3D block, its eight.
CurvesRead(video) ==
    {video.pos_x, video.pos_y, video.rot_z, video.scale_x, video.scale_y,
     video.anchor_x, video.anchor_y, video.opacity}
        \cup (IF video._3d = <<>> THEN {}
              ELSE {video._3d[1].pos_z, video._3d[1].dir_x, video._3d[1].dir_y,
                    video._3d[1].dir_z, video._3d[1].rot_x, video._3d[1].rot_y,
                    video._3d[1].scale_z, video._3d[1].anchor_z})

\* C22: in every reachable state, and so right after the Video or the 3D
\* block of a layer is enabled, every curve calc_mat reads for a layer of the
\* scene holds at least one key.
C22_CurvesNeverEmpty ==
    \A i \in LiveIds :
        heap[i].video # <<>> =>
            \A curve \in CurvesRead(heap[i].video[1]) : curve # <<>>

\* The index a layer dropped at `to` comes to rest at, and the drop that
\* brings a layer resting at dest back to the index `from`.
Rest(from, to) == IF to > from THEN to - 1 ELSE to
Back(from, dest) == IF from > dest THEN from + 1 ELSE from

\* C23: a drop moves the dragged layer to the index it is dropped at and
\* keeps the other layers of the composition in their order; the drop that
\* brings it back restores the sequence of the same layers; no layer of the
\* heap changes but in the order of the composition, and no parent field
\* changes.
C23_ReorderMovesOnly ==
    [][ (input'.kind = "drop" /\ panic_at' = "none") =>
            /\ CompAt(heap', root', input'.path)[Rest(input'.arg[1], input'.arg[2]) + 1]
                    = CompAt(heap, root, input'.path)[input'.arg[1] + 1]
            /\ RemoveAt(CompAt(heap', root', input'.path),
                        Rest(input'.arg[1], input'.arg[2]) + 1)
                    = RemoveAt(CompAt(heap, root, input'.path), input'.arg[1] + 1)
            /\ Reorder(CompAt(heap', root', input'.path),
                       Rest(input'.arg[1], input'.arg[2]),
                       Back(input'.arg[1], Rest(input'.arg[1], input'.arg[2])))
                    = CompAt(heap, root, input'.path)
            /\ \A i \in LayerIds :
                /\ heap'[i] = [heap[i] EXCEPT !.layers = heap'[i].layers]
                /\ heap'[i].parent = heap[i].parent
                /\ (\/ input'.path = ScenePath
                    \/ i # PathFold(heap, root, input'.path)) =>
                        heap'[i].layers = heap[i].layers
      ]_vars

\* A layer of a composition of three is dropped two places further down.
C23_Witness ==
    /\ input.kind = "drop" /\ panic_at = "none"
    /\ Len(CompAt(heap, root, input.path)) >= 3
    /\ input.arg[2] > input.arg[1] + 1
    /\ \E i \in LiveIds : heap[i].parent # NoLayer

\* The root composition without the layers to remove, and the positions in
\* it of the layers to duplicate.
Kept == SelectSeq(root, LAMBDA x : ~heap[x].want_deletion)
Marks == {k \in 1..Len(Kept) : heap[Kept[k]].want_duplicate}

\* C24: a pass over the root composition that finds a want flag removes
\* every layer to remove, those to duplicate as well included, and inserts
\* one layer for every position marked in the composition as the removals
\* left it, the first of them at the first marked position; the entry it
\* pushes before either step holds the composition as it was, under the path
\* of the scene.  The pass of the layer L1 over its one layer does the same
\* and pushes L1 as it was under the path of L1.
C24_RemovalsThenDuplicates ==
    [][ (input'.kind = "idle" /\ panic_at' = "none" /\ AnyWanted(heap, root)) =>
            /\ \A k \in 1..Len(root') : ~heap[root'[k]].want_deletion
            /\ Len(root') = Len(Kept) + Cardinality(Marks)
            /\ \A k \in Marks :
                (\A j \in Marks : k <= j) =>
                    /\ SubSeq(root', 1, k) = SubSeq(Kept, 1, k)
                    /\ root'[k + 1] = Kept[k]
            /\ undos' # <<>>
            /\ undos'[Len(undos')].path = ScenePath
            /\ undos'[Len(undos')].layer.layers = root
            /\ selected' = ScenePath
            /\ AnyWanted(heap, heap[1].layers) =>
                /\ heap'[1].layers = IF heap[3].want_deletion THEN <<>>
                                     ELSE <<3, 3>>
                /\ Len(undos') >= 2
                /\ undos'[Len(undos') - 1] = [layer |-> heap[1], path |-> <<0, 0, 0>>]
      ]_vars

\* A pass has removed the second layer of the root composition and inserted
\* two layers: the entry holds the three layers, the composition four.
C24_Witness ==
    /\ input.kind = "idle" /\ panic_at = "none"
    /\ undos # <<>>
    /\ undos[Len(undos)].path = ScenePath
    /\ undos[Len(undos)].layer.layers = <<1, 2, MaxLayers>>
    /\ heap[2].want_deletion
    /\ root = <<1, 1, 1, MaxLayers>>

\* What the video of the layer a parent field names makes of an X axis and
\* of an opacity; nothing without a parent field.
XLinked(in, parent, frame) ==
    IF parent = NoLayer THEN in ELSE XPlaced(in, heap[parent].video[1], frame)

FadedLinked(o, parent, frame) ==
    IF parent = NoLayer THEN o ELSE Faded(o, heap[parent].video[1], frame)

\* C25: the layer A of L1's composition is displayed at the frame
\* (time - start_time) * time_scale + offset_time of L1, with the transform
\* and the opacity L1 was left with once the video of L1's parent and L1's
\* own video were applied at the scene's time; on these the video of A's
\* parent and A's own video are applied once each at that frame, and nothing
\* else.
C25_ChildrenAtChildTime ==
    Evaluated =>
        \A k \in 1..Len(VideosOf(3)) :
            /\ XAxis(VideosOf(3)[k].mat.x[1], VideosOf(3)[k].mat.w[1])
                = XPlaced(XLinked(XPlaced(XLinked(XIdentity, heap[1].parent,
                                                  scene_current_time),
                                          OuterVideo, scene_current_time),
                                  heap[3].parent, LocalTime),
                          OwnVideo, LocalTime)
            /\ VideosOf(3)[k].opacity
                = Faded(FadedLinked(Faded(FadedLinked(1, heap[1].parent,
                                                      scene_current_time),
                                          OuterVideo, scene_current_time),
                                    heap[3].parent, LocalTime),
                        OwnVideo, LocalTime)

\* L1 starts at 1, runs at twice the speed and is offset by 1: at the
\* scene's time 2 its layer A is displayed at frame 3.  L1 and A are both
\* linked to B, and L1 has a video that places and scales.
C25_Witness ==
    /\ Evaluated
    /\ scene_current_time = 2
    /\ heap[1].start_time = 1 /\ heap[1].time_scale = 2 /\ heap[1].offset_time = 1
    /\ heap[1].parent = 2 /\ heap[3].parent = 2
    /\ OuterVideo = Video(3, 2, 1)
    /\ Len(VideosOf(3)) = 1
    /\ VideosOf(3)[1].mat.x[1] = 8
    /\ VideosOf(3)[1].mat.w[1] = 256

\* C26: in a frame that leaves the selection where the undoer tracks it,
\* feed_state leaves an edit pending only if the layer it saw differs from
\* the baseline, and an entry the quiet rule pushes differs from the layer
\* that becomes the baseline: a burst that ends at the value it started from
\* pushes nothing.
C26_PendingOnlyWhileDifferent ==
    [][ /\ (Tracking /\ flux' # <<>>) =>
            ~LayerEq(heap, original_layer', heap[SelectedId])
        /\ (Commits /\ Len(undos') = Len(undos) + 1) =>
            ~LayerEq(heap, undos'[Len(undos')].layer, original_layer')
      ]_vars

\* The channels whose result set_file was called with.
AppliedChannels == {loaded[k].chan : k \in 1..Len(loaded)}

\* C27: only a frame applies a result, a step of a picker thread never
\* does; a frame applies the message of the channel file_picker_result holds
\* when it finds one there without waiting, makes its file the loaded one
\* and lets go of the picker; no channel is applied twice; the result of a
\* pick whose Receiver a later pick replaced is never applied; and without a
\* message received the loaded file stays.
C27_PickAppliedOnceByPoll ==
    [][ /\ input'.kind \notin {"tick", "open"} =>
            /\ loaded' = loaded /\ aet_set' = aet_set
            /\ file_picker_result' = file_picker_result
            /\ heap' = heap /\ undos' = undos
        /\ loaded' # loaded =>
            /\ input'.kind = "tick"
            /\ file_picker_result # <<>>
            /\ file_picker_result[1] \notin AppliedChannels
            /\ channels[file_picker_result[1]].thread = "sent"
            /\ channels[file_picker_result[1]].message # <<>>
            /\ channels[file_picker_result[1]].message[1] # <<>>
            /\ loaded' = Append(loaded,
                    [chan |-> file_picker_result[1],
                     file |-> channels[file_picker_result[1]].message[1][1]])
            /\ aet_set' = channels[file_picker_result[1]].message[1][1]
            /\ file_picker_result' = <<>>
        /\ aet_set' # aet_set => loaded' # loaded
        /\ \A c \in Channels :
            channels'[c].rx = "replaced" => c \notin {loaded'[k].chan : k \in 1..Len(loaded')}
        /\ Cardinality({loaded'[k].chan : k \in 1..Len(loaded')}) = Len(loaded')
      ]_vars

\* The second pick was started before the first one delivered: the thread
\* of the first found its Receiver gone, the file of the second is loaded.
C27_Witness ==
    /\ channels[1].rx = "replaced" /\ channels[1].thread = "panicked"
    /\ loaded = <<[chan |-> 2, file |-> "aet_b.bin"]>>
    /\ aet_set = "aet_b.bin"
    /\ file_picker_result = <<>>

\* C28: what a value stored in the undoer persists, the layers of its
\* composition included, is the same after a frame as before it, for every
\* history entry the frame keeps, for the baseline when the frame keeps it,
\* and for the pending value when the frame keeps it.
C28_SnapshotsImmutable ==
    [][ panic_at' = "none" =>
            /\ \A k \in 1..Len(undos) :
                (k <= Len(undos') /\ undos'[k] = undos[k]) =>
                    Saved(heap', undos[k].layer, MaxLayers)
                        = Saved(heap, undos[k].layer, MaxLayers)
            /\ original_layer' = original_layer =>
                    Saved(heap', original_layer, MaxLayers)
                        = Saved(heap, original_layer, MaxLayers)
            /\ (flux # <<>> /\ flux' = flux) =>
                    Saved(heap', flux[1].layer, MaxLayers)
                        = Saved(heap, flux[1].layer, MaxLayers)
      ]_vars

\* C29: a frame that finds an edit pending and leaves none either ran an
\* undo, or pushed the baseline under the tracked path as a new entry of the
\* history: so also a frame whose pass calls add_undo for a removal or a
\* duplication.
C29_PendingNeverDropped ==
    [][ (flux # <<>> /\ flux' = <<>> /\ panic_at' = "none") =>
            \/ input'.kind \in {"undo", "menu_undo"}
            \/ \E k \in (Len(undos) + 1)..Len(undos') :
                    undos'[k] = [layer |-> original_layer, path |-> current_path]
      ]_vars

\* C30: in a scene where no parent field names the layer that holds it or a
\* layer below that layer, a layer above it being allowed, display takes
\* every lock it asks for on the target of a parent field and comes to its
\* end.
C30_ParentLockSucceeds ==
    (\A i \in LiveIds :
        heap[i].parent # NoLayer =>
            heap[i].parent \notin {i} \cup Below(heap, i, MaxLayers))
        => panic_at # "display"

====
